---- MODULE Spec2Model ----
(***************************************************************************)
(* Intake confirmation pipeline of the CRM: the relational store (intake   *)
(* sessions, canonical records, contacts, code sequences, media, timeline, *)
(* audit log) and the request handlers that run against it.  Every await   *)
(* of a handler is one step, so concurrent requests interleave at the      *)
(* store calls exactly where the code yields.                              *)
(***************************************************************************)
EXTENDS Integers, Sequences, FiniteSets, Bags, TLC

(***************************************************************************)
(* Bounds of the model                                                     *)
(***************************************************************************)
\* media rows attached to the first intake session in the initial store
MaxMedia == 2
\* segments the segmenter may return for a multi-listing text (at least 2)
MaxSegments == 2
\* longest free-text input drawn for the sanitizer
MaxLen == 2
\* the limiter is run with a small limit and window; the routes pass 20 and 60_000
RateLimit == 2
WindowMs == 3
\* last instant of the clock
MaxTime == 6
\* files carried by one upload request
MaxFiles == 2
\* listing candidates a text, or the model's answer about it, may hold
MaxCandidates == 11
\* pieces a text handed to the normalizer is made of
MaxPieces == 3
\* characters of a model response
MaxJson == 2

\* SQL NULL / JS null for ids and numbers
Null == 0 - 1
\* extract(year from now()) / new Date().getFullYear(): one year is modelled
Year == 2025

Calls == {"c1", "c2"}

(***************************************************************************)
(* Strings are sequences of one-character strings, so that trimming,       *)
(* digit filtering and lower-casing are computed and not assumed.          *)
(***************************************************************************)
Digits == {"0", "1", "2", "3", "4", "5", "6", "7", "8", "9"}

DigitVal(ch) ==
  CASE ch = "0" -> 0 [] ch = "1" -> 1 [] ch = "2" -> 2 [] ch = "3" -> 3
    [] ch = "4" -> 4 [] ch = "5" -> 5 [] ch = "6" -> 6 [] ch = "7" -> 7
    [] ch = "8" -> 8 [] OTHER -> 9

IsDigit(ch) == ch \in Digits

IsSpace(ch) == ch = " "

LowerChar(ch) ==
  CASE ch = "F" -> "f" [] ch = "O" -> "o" [] ch = "U" -> "u" [] ch = "S" -> "s"
    [] ch = "A" -> "a" [] ch = "N" -> "n" [] OTHER -> ch

toLowerCase(s) == [i \in 1..Len(s) |-> LowerChar(s[i])]

RECURSIVE trimStart(_)
trimStart(s) == IF s # <<>> /\ IsSpace(Head(s)) THEN trimStart(Tail(s)) ELSE s

RECURSIVE trimEnd(_)
trimEnd(s) ==
  IF s # <<>> /\ IsSpace(s[Len(s)]) THEN trimEnd(SubSeq(s, 1, Len(s) - 1)) ELSE s

\* String(value ?? "").trim()
text(value) == trimEnd(trimStart(value))

\* text(value).replace(/\D/g, "")
digitsOnly(value) == SelectSeq(text(value), IsDigit)

RECURSIVE Number(_)
Number(raw) ==
  IF raw = <<>> THEN 0
  ELSE 10 * Number(SubSeq(raw, 1, Len(raw) - 1)) + DigitVal(raw[Len(raw)])

\* raw ? Number(raw) : null
numericOrNull(value) ==
  LET raw == digitsOnly(value) IN IF raw # <<>> THEN Number(raw) ELSE Null

IsPhoneChar(ch) == IsDigit(ch) \/ ch = "+"

\* String(value ?? "").replace(/[^\d+]/g, "").replace(/(?!^)\+/g, "")
normalizePhone(value) ==
  LET kept == SelectSeq(value, IsPhoneChar)
  IN  IF kept = <<>> THEN <<>>
      ELSE <<Head(kept)>> \o SelectSeq(Tail(kept), IsDigit)

asText(value) == text(value)

\* asText(value).replace(/\D/g, "")
normalizeContactPhone(value) == SelectSeq(asText(value), IsDigit)

Empty == <<>>

\* JS truthiness of a string / of a number-or-null
Truthy(s) == s # <<>>

TruthyNum(n) == n # Null /\ n # 0

\* a || b || c on strings
OrElse(a, b, c) == IF Truthy(a) THEN a ELSE IF Truthy(b) THEN b ELSE c

(***************************************************************************)
(* Confirmation orchestrator: tables, allow-lists and pure helpers         *)
(***************************************************************************)
ReviewTypes == {"sale", "rent", "buyer", "client"}

tableByType(type) ==
  CASE type = "sale" -> "properties_sale" [] type = "rent" -> "properties_rent"
    [] type = "buyer" -> "buyers" [] OTHER -> "clients"

codePrefixByType(type) ==
  CASE type = "sale" -> "SALE" [] type = "rent" -> "RENT"
    [] type = "buyer" -> "BUY" [] OTHER -> "CLI"

W_unknown == <<"u", "n", "k", "n", "o", "w", "n">>
W_furnished == <<"f", "u", "r", "n", "i", "s", "h", "e", "d">>
W_semi_furnished == <<"s", "e", "m", "i", "_">> \o W_furnished
W_unfurnished == <<"u", "n">> \o W_furnished
W_Unknown == <<"U", "n", "k", "n", "o", "w", "n">>
W_owner == <<"o", "w", "n", "e", "r">>
W_seller == <<"s", "e", "l", "l", "e", "r">>
W_landlord == <<"l", "a", "n", "d", "l", "o", "r", "d">>

saleRentFurnished == {W_furnished, W_semi_furnished, W_unfurnished, W_unknown}

clientRole == {W_owner, W_seller, W_landlord}

SaleFields ==
  <<"source", "price", "currency", "size_sqm", "bedrooms", "bathrooms", "area",
    "compound", "floor", "furnished", "finishing", "payment_terms", "notes">>

allowedFieldsByType(type) ==
  CASE type \in {"sale", "rent"} -> SaleFields
    [] type = "buyer" ->
         <<"source", "budget_min", "budget_max", "preferred_areas",
           "bedrooms_needed", "timeline", "notes">>
    [] OTHER -> <<"source", "name", "phone", "role", "notes">>

numericFields ==
  {"price", "size_sqm", "bedrooms", "bathrooms", "floor", "budget_min",
   "budget_max", "bedrooms_needed"}

SeqToSet(q) == {q[i] : i \in 1..Len(q)}

\* every key a confirm payload may carry; an absent key reads as ""
InputKeys ==
  UNION {SeqToSet(allowedFieldsByType(t)) : t \in ReviewTypes}
    \cup {"contact_name", "contact_phone"}

RECURSIVE SplitComma(_, _)
\* value.split(","): cur is the piece read so far
SplitComma(s, cur) ==
  IF s = <<>> THEN <<cur>>
  ELSE IF Head(s) = "," THEN <<cur>> \o SplitComma(Tail(s), <<>>)
  ELSE SplitComma(Tail(s), Append(cur, Head(s)))

\* text(value).split(",").map(trim).filter(Boolean)
splitAreas(value) ==
  LET parts == SplitComma(text(value), <<>>)
      trimmed == [i \in 1..Len(parts) |-> text(parts[i])]
  IN  SelectSeq(trimmed, Truthy)

sanitizeField(field, value) ==
  IF field \in numericFields THEN numericOrNull(value)
  ELSE IF field = "preferred_areas" THEN splitAreas(value)
  ELSE IF field = "phone" THEN normalizePhone(value)
  ELSE IF field = "furnished" THEN
    LET v == toLowerCase(text(value))
    IN  IF v \in saleRentFurnished THEN v ELSE W_unknown
  ELSE IF field = "role" THEN
    LET v == toLowerCase(text(value))
    IN  IF v \in clientRole THEN v ELSE W_owner
  ELSE text(value)

sanitizeForType(type, input) ==
  [field \in SeqToSet(allowedFieldsByType(type)) |-> sanitizeField(field, input[field])]

\* a mutant: a listing counts as located only when area and compound are both given
missingListing_eitherBlank(row) ==
  (IF ~TruthyNum(row["price"]) THEN <<"price">> ELSE <<>>)
    \o (IF ~Truthy(text(row["area"])) \/ ~Truthy(text(row["compound"]))
        THEN <<"location_area">> ELSE <<>>)

\* if (!row.price) out.push("price"); if (!text(row.area) && !text(row.compound)) ...
missingListing(row) ==
  (IF ~TruthyNum(row["price"]) THEN <<"price">> ELSE <<>>)
    \o (IF ~Truthy(text(row["area"])) /\ ~Truthy(text(row["compound"]))
        THEN <<"location_area">> ELSE <<>>)

missingBuyer(row) ==
  (IF ~TruthyNum(row["budget_min"]) /\ ~TruthyNum(row["budget_max"])
   THEN <<"budget">> ELSE <<>>)
    \o (IF Len(row["preferred_areas"]) = 0 THEN <<"preferred_areas">> ELSE <<>>)

missingClient(row) ==
  (IF ~Truthy(text(row["name"])) /\ ~Truthy(text(row["phone"]))
   THEN <<"name_or_phone">> ELSE <<>>)
    \o (IF ~Truthy(text(row["role"])) THEN <<"client_type">> ELSE <<>>)

computeMissingCritical(type, row) ==
  IF type \in {"sale", "rent"} THEN missingListing(row)
  ELSE IF type = "buyer" THEN missingBuyer(row)
  ELSE missingClient(row)

rowStatusOf(missingCritical) ==
  IF Len(missingCritical) > 0 THEN "needs_review" ELSE "active"

MergeModes == {"keep_existing", "replace_with_new", "append"}

\* merge[key] || (key === "notes" ? "append" : "replace_with_new")
\* a mutant: a field without a decision is always replaced, notes included
decisionFor_alwaysReplace(merge, key) ==
  IF key \in DOMAIN merge THEN merge[key] ELSE "replace_with_new"

decisionFor(merge, key) ==
  IF key \in DOMAIN merge THEN merge[key]
  ELSE IF key = "notes" THEN "append" ELSE "replace_with_new"

mergeValue(key, decision, current, next) ==
  IF decision = "replace_with_new" THEN next
  ELSE IF decision = "append" /\ key = "notes" THEN
    LET left == text(current)
        right == text(next)
    IN  IF Truthy(left) /\ Truthy(right) THEN left \o <<"\n">> \o right
        ELSE IF Truthy(left) THEN left ELSE right
  ELSE current

mergeRow(existing, incoming, merge) ==
  LET row == [key \in DOMAIN incoming |->
                mergeValue(key, decisionFor(merge, key), existing[key], incoming[key])]
  IN  [row |-> row,
       changedFields |-> {key \in DOMAIN incoming : existing[key] # row[key]}]

(***************************************************************************)
(* The store and the in-flight requests                                    *)
(***************************************************************************)
VARIABLES
  sessions,   \* intake_sessions: id -> row
  records,    \* properties_sale / properties_rent / buyers / clients: id -> row
  contacts,   \* contacts: id -> row
  codeSeq,    \* crm_code_sequences: code_key -> last_value (absent: no row)
  media,      \* media: id -> row
  timeline,   \* timeline rows (a bag: the table is append-only and never read back)
  audit,      \* audit_logs rows (a bag)
  pc,         \* per request: the await it is suspended at
  req,        \* per request: operation and payload
  loc,        \* per request: local variables of the handler
  resp,       \* per request: HTTP status of the response (0: none yet)
  buckets,    \* rate limiter: key -> [count, resetAt] (absent: no entry)
  now,        \* Date.now()
  granted     \* per key: the instants of the calls the limiter allowed, in order

store == <<sessions, records, contacts, codeSeq, media, timeline, audit>>

\* the process-local state of the rate limiter and its clock
limiter == <<buckets, now, granted>>

vars ==
  <<sessions, records, contacts, codeSeq, media, timeline, audit, pc, req, loc, resp,
    buckets, now, granted>>

\* gen_random_uuid(): ids are drawn fresh, modelled as the next unused number
NewId(table) == Cardinality(DOMAIN table) + 1

Extend(table, id, row) == [k \in DOMAIN table \cup {id} |-> IF k = id THEN row ELSE table[k]]

CharOf(d) ==
  CASE d = 0 -> "0" [] d = 1 -> "1" [] d = 2 -> "2" [] d = 3 -> "3" [] d = 4 -> "4"
    [] d = 5 -> "5" [] d = 6 -> "6" [] d = 7 -> "7" [] d = 8 -> "8" [] OTHER -> "9"

RECURSIVE ToDigits(_)
\* String(next)
ToDigits(n) == IF n < 10 THEN <<CharOf(n)>> ELSE ToDigits(n \div 10) \o <<CharOf(n % 10)>>

RECURSIVE padStart(_, _)
\* String(next).padStart(5, "0")
padStart(d, width) == IF Len(d) >= width THEN d ELSE padStart(<<"0">> \o d, width)

\* `${prefix}-${year}-${String(next).padStart(5, "0")}`
formatCode(prefix, next) == <<prefix, Year, padStart(ToDigits(next), 5)>>

NoRow == [k \in {} |-> 0]

\* `ai:${actor.userId || x-forwarded-for || "anon"}`
RateKeys == {"ai:u1", "ai:u2"}

InitLoc ==
  [intake |-> NoRow, sanitized |-> NoRow, contactName |-> <<>>, contactPhone |-> <<>>,
   contactId |-> Null, missingCritical |-> <<>>, rowStatus |-> "active",
   next |-> 0, code |-> <<>>, recordId |-> Null, changedFields |-> {},
   merged |-> NoRow, mediaRows |-> <<>>, idx |-> 0,
   images |-> 0, videos |-> 0, documents |-> 0, moveWarnings |-> <<>>,
   session |-> NoRow, detected |-> "", segments |-> 0, childIds |-> {},
   missing |-> FALSE, failStatus |-> 0,
   duplicates |-> <<>>, toUpload |-> <<>>,
   normalizedText |-> <<>>, validated |-> NoRow,
   raw |-> <<>>, repaired |-> <<>>, modelCalls |-> 0, repairCalls |-> 0,
   err |-> "", wrote |-> {}]

EmptyData == [k \in InputKeys |-> <<>>]

\* the row an earlier create_new confirm of a sale left behind
SeedSaleRow ==
  sanitizeForType("sale", [EmptyData EXCEPT !["price"] = <<"9">>, !["area"] = <<"A">>])

SeedMediaType(i) == IF i = 1 THEN "image" ELSE IF i = 2 THEN "video" ELSE "document"

\* file names of the rows an earlier upload left on the session
SeedFileName(i) == IF i = 1 THEN "a.png" ELSE IF i = 2 THEN "b.mp4" ELSE "c.pdf"

InitRows(mediaIds, badSets, rows) ==
  /\ sessions = (1 :> [status |-> "draft", parent_session_id |-> Null,
                       type_detected |-> "", type_confirmed |-> "",
                       final_record_type |-> "", final_record_id |-> Null,
                       ai_json |-> "{}", ai_meta |-> {"integration_source"}])
  /\ \E seed \in rows :
       records = (1 :> [record_type |-> "properties_sale", code |-> formatCode("SALE", 1),
                        status |-> rowStatusOf(computeMissingCritical("sale", seed)),
                        contact_id |-> Null, created_by |-> "u1",
                        intake_session_id |-> Null, row |-> seed])
  /\ contacts = NoRow
  /\ codeSeq = ("SALE" :> 1)
  /\ \E bad \in badSets :
       media = [i \in mediaIds |->
                  [intake_session_id |-> 1, record_type |-> "", record_id |-> Null,
                   linked_record_type |-> "", linked_record_id |-> Null,
                   media_type |-> SeedMediaType(i), url_ok |-> i \notin bad,
                   original_filename |-> SeedFileName(i), file_size |-> 1]]
  /\ timeline = EmptyBag
  /\ audit = EmptyBag
  /\ pc = [c \in Calls |-> "idle"]
  /\ req = [c \in Calls |-> NoRow]
  /\ loc = [c \in Calls |-> InitLoc]
  /\ resp = [c \in Calls |-> 0]
  /\ buckets = NoRow
  /\ now = 0
  /\ granted = [key \in RateKeys |-> <<>>]

InitWith(mediaIds, badSets) == InitRows(mediaIds, badSets, {SeedSaleRow})

\* two requests in flight against a session that carries one media row
Init == InitWith({1}, {{}})

\* one request against a session that carries MaxMedia media rows
InitOne == InitWith(1..MaxMedia, {{}, {1}})

(***************************************************************************)
(* Request plumbing                                                        *)
(***************************************************************************)
Includes409(msg) == msg = "Intake session already confirmed"

\* an exception reaching the catch block of the confirm route
Throw(c, msg) ==
  /\ pc' = [pc EXCEPT ![c] = "done"]
  /\ resp' = [resp EXCEPT ![c] = IF Includes409(msg) THEN 409 ELSE 500]

Goto(c, label) ==
  /\ pc' = [pc EXCEPT ![c] = label]
  /\ UNCHANGED <<limiter, resp>>

Respond(c, status) ==
  /\ pc' = [pc EXCEPT ![c] = "done"]
  /\ resp' = [resp EXCEPT ![c] = status]

Wrote(l, table) == [l EXCEPT !.wrote = @ \cup {table}]

(***************************************************************************)
(* Request payloads drawn for the confirm route                            *)
(***************************************************************************)
\* a listing with price, area and an owner reachable by phone
DataFull ==
  [EmptyData EXCEPT !["price"] = <<"1", "5">>, !["area"] = <<"A">>,
                    !["contact_name"] = <<"N">>, !["contact_phone"] = <<"+", "7">>,
                    !["name"] = <<"N">>, !["phone"] = <<"+", "7">>]

\* a named owner without a phone, nothing else
DataNameOnly == [EmptyData EXCEPT !["contact_name"] = <<"N">>, !["name"] = <<"N">>]

ConfirmData == {EmptyData, DataFull, DataNameOnly}

\* an id no row carries
MissingId == 99

\* payloads of concurrent requests: same or different table, every way of naming a target
ConfirmPayloads ==
  [op : {"confirm"}, session_id : {1}, type : {"sale", "client"},
   mode : {"create_new"}, target_record_id : {Null},
   extracted_data : {DataFull}, merge_decisions : {NoRow}]
  \cup
  [op : {"confirm"}, session_id : {1}, type : {"sale"},
   mode : {"update_existing"}, target_record_id : {Null, 1, MissingId},
   extracted_data : {DataFull}, merge_decisions : {NoRow}]

\* payloads of a request running alone: every type, mode, target and kind of data
ConfirmPayloadsOne ==
  [op : {"confirm"}, session_id : {1, MissingId}, type : ReviewTypes \cup {"other"},
   mode : {"create_new", "update_existing"}, target_record_id : {Null, 1, MissingId},
   extracted_data : ConfirmData, merge_decisions : {NoRow, ("notes" :> "keep_existing")}]

(***************************************************************************)
(* POST /api/review/confirm and confirmIntakeSession                       *)
(***************************************************************************)
StartConfirm(c, payloads) ==
  /\ pc[c] = "idle"
  /\ \E payload \in payloads :
       /\ req' = [req EXCEPT ![c] = payload]
       /\ IF payload.type = "other"
          THEN Respond(c, 400)
          ELSE Goto(c, "cf_read")
  /\ UNCHANGED <<limiter, store, loc>>

\* the branch taken once the contact id is known (no await in between)
AfterContact(c, l) ==
  IF req[c].mode = "create_new" THEN
    /\ loc' = [loc EXCEPT ![c] = l]
    /\ Goto(c, "nc_read")
  ELSE IF req[c].target_record_id = Null THEN
    /\ loc' = [loc EXCEPT ![c] = [l EXCEPT !.err = "target_record_id is required for update_existing"]]
    /\ Throw(c, "target_record_id is required for update_existing")
  ELSE
    /\ loc' = [loc EXCEPT ![c] = l]
    /\ Goto(c, "cf_load")

\* a mutant: the status check is dropped
AlreadyConfirmed_never(status) == FALSE

\* if (intake.status === "confirmed") throw ...
AlreadyConfirmed(status) == status = "confirmed"

\* the select answered: no row, a confirmed row, or a row to work on
CfReadRow(c) ==
     IF req[c].session_id \notin DOMAIN sessions THEN
       /\ loc' = [loc EXCEPT ![c].err = "Intake session not found"]
       /\ Throw(c, "Intake session not found")
     ELSE IF AlreadyConfirmed(sessions[req[c].session_id].status) THEN
       /\ loc' = [loc EXCEPT ![c].err = "Intake session already confirmed",
                             ![c].intake = [status |-> "confirmed",
                                            ai_meta |-> sessions[req[c].session_id].ai_meta]]
       /\ Throw(c, "Intake session already confirmed")
     ELSE
       LET intake == sessions[req[c].session_id]
           data == req[c].extracted_data
           type == req[c].type
           sanitized == sanitizeForType(type, data)
           sname == IF "name" \in DOMAIN sanitized THEN sanitized["name"] ELSE <<>>
           sphone == IF "phone" \in DOMAIN sanitized THEN sanitized["phone"] ELSE <<>>
           missing == computeMissingCritical(type, sanitized)
           l == [loc[c] EXCEPT
                   !.intake = [status |-> intake.status, ai_meta |-> intake.ai_meta],
                   !.sanitized = sanitized,
                   !.contactName = asText(OrElse(sname, data["contact_name"], data["name"])),
                   !.contactPhone = normalizeContactPhone(
                                      OrElse(sphone, data["contact_phone"], data["phone"])),
                   !.missingCritical = missing,
                   !.rowStatus = rowStatusOf(missing),
                   !.recordId = req[c].target_record_id]
       IN  IF Truthy(l.contactPhone) THEN
             /\ loc' = [loc EXCEPT ![c] = l]
             /\ Goto(c, "rc_lookup")
           ELSE IF Truthy(l.contactName) THEN
             /\ loc' = [loc EXCEPT ![c] = l]
             /\ Goto(c, "rc_insert")
           ELSE AfterContact(c, l)

\* select id, status, ai_meta from intake_sessions where id = session_id, single()
CfRead(c) ==
  /\ pc[c] = "cf_read"
  /\ UNCHANGED <<limiter, store, req>>
  /\ \/ CfReadRow(c)
     \/ /\ loc' = [loc EXCEPT ![c].err = "select failed"]
        /\ Throw(c, "select failed")

\* resolveContactId: select ... eq(phone) order by created_at limit 1
FoundContacts(phone) == {id \in DOMAIN contacts : contacts[id].phone = phone}

MinOf(S) == CHOOSE x \in S : \A y \in S : x <= y

RcLookup(c) ==
  /\ pc[c] = "rc_lookup"
  /\ UNCHANGED <<limiter, store, req>>
  /\ LET found == FoundContacts(loc[c].contactPhone)
     IN  \/ IF found # {}
            THEN AfterContact(c, [loc[c] EXCEPT !.contactId = MinOf(found)])
            ELSE /\ loc' = loc
                 /\ Goto(c, "rc_insert")
         \* const { data: found } = ...: a store error leaves found undefined
         \/ /\ loc' = loc
            /\ Goto(c, "rc_insert")

\* resolveContactId: insert into contacts (with the phone, or name only)
RcInsert(c) ==
  /\ pc[c] = "rc_insert"
  /\ UNCHANGED <<limiter, sessions, records, codeSeq, media, timeline, audit, req>>
  /\ \/ LET id == NewId(contacts)
            row == IF Truthy(loc[c].contactPhone)
                   THEN [name |-> IF Truthy(loc[c].contactName)
                                  THEN loc[c].contactName ELSE W_Unknown,
                         phone |-> loc[c].contactPhone]
                   ELSE [name |-> loc[c].contactName, phone |-> <<>>]
        IN  /\ contacts' = Extend(contacts, id, row)
            /\ AfterContact(c, Wrote([loc[c] EXCEPT !.contactId = id], "contacts"))
     \/ /\ contacts' = contacts
        /\ loc' = [loc EXCEPT ![c].err = "Failed to create contact"]
        /\ Throw(c, "Failed to create contact")

\* nextCode: select last_value where code_key = prefix and year_num = year
NcRead(c) ==
  /\ pc[c] = "nc_read"
  /\ UNCHANGED <<limiter, store, req>>
  /\ LET prefix == codePrefixByType(req[c].type)
         existing == IF prefix \in DOMAIN codeSeq THEN codeSeq[prefix] ELSE 0
     IN  \/ loc' = [loc EXCEPT ![c].next = existing + 1]
         \* const { data: existing } = ...: a store error reads as no row
         \/ loc' = [loc EXCEPT ![c].next = 0 + 1]
  /\ Goto(c, "nc_upsert")

\* nextCode: upsert {code_key, year_num, last_value: next} on conflict (code_key, year_num)
NcUpsert(c) ==
  /\ pc[c] = "nc_upsert"
  /\ UNCHANGED <<limiter, sessions, records, contacts, media, timeline, audit, req>>
  /\ LET prefix == codePrefixByType(req[c].type)
     IN  \/ /\ codeSeq' = Extend(codeSeq, prefix, loc[c].next)
            /\ loc' = [loc EXCEPT ![c] = Wrote([@ EXCEPT !.code = formatCode(prefix, loc[c].next)],
                                               "crm_code_sequences")]
            /\ Goto(c, "cf_insert")
         \/ /\ codeSeq' = codeSeq
            /\ loc' = [loc EXCEPT ![c].err = "upsert failed"]
            /\ Throw(c, "upsert failed")

\* code text unique, per table
CodeTaken(table, code) ==
  \E id \in DOMAIN records : records[id].record_type = table /\ records[id].code = code

\* insert({...sanitized, contact_id, code, status, intake_session_id}).select("id").single()
CfInsert(c) ==
  /\ pc[c] = "cf_insert"
  /\ UNCHANGED <<limiter, sessions, contacts, codeSeq, media, timeline, audit, req>>
  /\ LET table == tableByType(req[c].type)
         id == NewId(records)
         row == [record_type |-> table, code |-> loc[c].code, status |-> loc[c].rowStatus,
                 contact_id |-> loc[c].contactId, intake_session_id |-> req[c].session_id,
                 created_by |-> "", row |-> loc[c].sanitized]
     IN  \/ /\ ~CodeTaken(table, loc[c].code)
            /\ records' = Extend(records, id, row)
            /\ loc' = [loc EXCEPT ![c] = Wrote([@ EXCEPT
                         !.recordId = id,
                         !.changedFields = DOMAIN loc[c].sanitized
                            \cup (IF loc[c].contactId # Null THEN {"contact_id"} ELSE {})],
                         table)]
            /\ Goto(c, "cf_tl_created")
         \/ /\ records' = records
            /\ loc' = [loc EXCEPT ![c].err = "Create record failed"]
            /\ Throw(c, "Create record failed")

\* createTimelineEvent: insert into timeline, throwing on a store error
TimelineStep(c, label, event, nextLabel) ==
  /\ pc[c] = label
  /\ UNCHANGED <<limiter, sessions, records, contacts, codeSeq, media, audit, req>>
  /\ \/ /\ timeline' = timeline (+) SetToBag({event})
        /\ loc' = [loc EXCEPT ![c] = Wrote(@, "timeline")]
        /\ Goto(c, nextLabel)
     \/ /\ timeline' = timeline
        /\ loc' = [loc EXCEPT ![c].err = "timeline insert failed"]
        /\ Throw(c, "timeline insert failed")

Event(c, action) ==
  [record_type |-> tableByType(req[c].type), record_id |-> loc[c].recordId, action |-> action]

\* a mutant: the session is marked right after the record is written
CfTlCreated_thenSession(c) ==
  TimelineStep(c, "cf_tl_created", Event(c, "Record created from intake"), "cf_session_update")

CfTlCreated(c) ==
  TimelineStep(c, "cf_tl_created", Event(c, "Record created from intake"), "mm_select")

\* the select answered: mergeRow on the row, or no row
CfLoadRow(c) ==
     LET table == tableByType(req[c].type)
         id == req[c].target_record_id
     IN  IF id \in DOMAIN records /\ records[id].record_type = table THEN
           LET existing == records[id]
               merged == mergeRow(existing.row, loc[c].sanitized, req[c].merge_decisions)
               linked == loc[c].contactId # Null /\ existing.contact_id # loc[c].contactId
           IN  /\ loc' = [loc EXCEPT
                            ![c].merged = merged.row,
                            ![c].changedFields = merged.changedFields
                               \cup (IF linked THEN {"contact_id"} ELSE {})]
               /\ Goto(c, "cf_update")
         ELSE
           /\ loc' = [loc EXCEPT ![c].err = "Target record not found"]
           /\ Throw(c, "Target record not found")

\* select * from <table> where id = target_record_id, single()
CfLoad(c) ==
  /\ pc[c] = "cf_load"
  /\ UNCHANGED <<limiter, store, req>>
  /\ \/ CfLoadRow(c)
     \/ /\ loc' = [loc EXCEPT ![c].err = "select failed"]
        /\ Throw(c, "select failed")

\* a mutant: the update also takes the record over for the session, as an insert does
UpdatedRow_relinked(existing, merged, contactId, rowStatus) ==
  [existing EXCEPT
     !.row = [k \in DOMAIN @ |-> IF k \in DOMAIN merged THEN merged[k] ELSE @[k]],
     !.contact_id = IF contactId # Null THEN contactId ELSE @,
     !.status = rowStatus,
     !.intake_session_id = 1,
     !.created_by = ""]

\* the row after update({...merged.row, ...(contactId ? {contact_id} : {}), status: rowStatus})
UpdatedRow(existing, merged, contactId, rowStatus) ==
  [existing EXCEPT
     !.row = [k \in DOMAIN @ |-> IF k \in DOMAIN merged THEN merged[k] ELSE @[k]],
     !.contact_id = IF contactId # Null THEN contactId ELSE @,
     !.status = rowStatus]

\* update({...mergedWithContact, status: rowStatus}).eq("id", target_record_id)
CfUpdate(c) ==
  /\ pc[c] = "cf_update"
  /\ UNCHANGED <<limiter, sessions, contacts, codeSeq, media, timeline, audit, req>>
  /\ LET id == req[c].target_record_id
     IN  \/ /\ records' =
                 IF id \in DOMAIN records
                 THEN [records EXCEPT
                         ![id] = UpdatedRow(@, loc[c].merged, loc[c].contactId, loc[c].rowStatus)]
                 ELSE records
            /\ loc' = [loc EXCEPT ![c] = Wrote([@ EXCEPT !.recordId = id], tableByType(req[c].type))]
            /\ Goto(c, "cf_tl_updated")
         \/ /\ records' = records
            /\ loc' = [loc EXCEPT ![c].err = "update failed"]
            /\ Throw(c, "update failed")

CfTlUpdated(c) ==
  TimelineStep(c, "cf_tl_updated", Event(c, "Record updated from intake"), "mm_select")

(***************************************************************************)
(* moveMediaForSession                                                     *)
(***************************************************************************)
RECURSIVE SortedSeq(_)
SortedSeq(S) == IF S = {} THEN <<>> ELSE <<MinOf(S)>> \o SortedSeq(S \ {MinOf(S)})

\* rows whose file_url does not parse are skipped with a warning (continue)
RECURSIVE SkipUnparsable(_, _)
SkipUnparsable(l, i) ==
  IF i > Len(l.mediaRows) THEN [l EXCEPT !.idx = i]
  ELSE IF l.mediaRows[i].url_ok THEN [l EXCEPT !.idx = i]
  ELSE SkipUnparsable(
         [l EXCEPT !.moveWarnings = Append(@, <<"Path parse failed", l.mediaRows[i].id>>)],
         i + 1)

\* where the handler suspends next: inside the loop, or at the first timeline event after it
AfterItem(c, l) ==
  pc' = [pc EXCEPT ![c] =
           IF l.idx <= Len(l.mediaRows) THEN "mm_move"
           ELSE IF l.contactId # Null THEN "cf_tl_contact" ELSE "cf_tl_media"]

MmSelect(c) ==
  /\ pc[c] = "mm_select"
  /\ UNCHANGED <<limiter, store, req>>
  /\ \/ LET ids == SortedSeq({id \in DOMAIN media : media[id].intake_session_id = req[c].session_id})
            rows == [i \in 1..Len(ids) |->
                       [id |-> ids[i], url_ok |-> media[ids[i]].url_ok,
                        media_type |-> media[ids[i]].media_type]]
            l == SkipUnparsable([loc[c] EXCEPT !.mediaRows = rows], 1)
        IN  /\ loc' = [loc EXCEPT ![c] = l]
            /\ AfterItem(c, l)
            /\ UNCHANGED resp
     \/ /\ loc' = [loc EXCEPT ![c].err = "media select failed"]
        /\ Throw(c, "media select failed")

\* storage.move(sourcePath, destinationPath)
MmMove(c) ==
  /\ pc[c] = "mm_move"
  /\ UNCHANGED <<limiter, store, req, loc>>
  /\ \/ Goto(c, "mm_update")
     \/ Goto(c, "mm_copy")

CopyWarning(c, copied) ==
  [loc EXCEPT ![c].moveWarnings =
     Append(@, <<IF copied THEN "Move failed; copied instead" ELSE "Move/copy failed",
                 loc[c].mediaRows[loc[c].idx].id>>)]

\* a mutant: a failed copy aborts the migration
AfterCopy_abort(c, copied) ==
  IF copied
  THEN /\ loc' = CopyWarning(c, copied)
       /\ Goto(c, "mm_update")
  ELSE /\ loc' = [CopyWarning(c, copied) EXCEPT ![c].err = "Move/copy failed"]
       /\ Throw(c, "Move/copy failed")

\* if (copyResult.error) warnings.push(...) else warnings.push(...); the loop goes on
AfterCopy(c, copied) ==
  /\ loc' = CopyWarning(c, copied)
  /\ Goto(c, "mm_update")

\* storage.copy(sourcePath, destinationPath), after a failed move
MmCopy(c) ==
  /\ pc[c] = "mm_copy"
  /\ UNCHANGED <<limiter, store, req>>
  /\ \E copied \in BOOLEAN : AfterCopy(c, copied)

Tally(l, media_type) ==
  IF media_type = "image" THEN [l EXCEPT !.images = @ + 1]
  ELSE IF media_type = "video" THEN [l EXCEPT !.videos = @ + 1]
  ELSE [l EXCEPT !.documents = @ + 1]

\* update media set record_type, record_id, linked_*, file_url where id = row.id
MmUpdate(c) ==
  /\ pc[c] = "mm_update"
  /\ UNCHANGED <<limiter, sessions, records, contacts, codeSeq, timeline, audit, req, resp>>
  /\ LET row == loc[c].mediaRows[loc[c].idx]
         table == tableByType(req[c].type)
     IN  \/ /\ media' = [media EXCEPT ![row.id] =
                           [@ EXCEPT !.record_type = table, !.record_id = loc[c].recordId,
                                     !.linked_record_type = table,
                                     !.linked_record_id = loc[c].recordId,
                                     !.url_ok = TRUE]]
            /\ LET l == SkipUnparsable(Wrote(Tally(loc[c], row.media_type), "media"),
                                       loc[c].idx + 1)
               IN  /\ loc' = [loc EXCEPT ![c] = l]
                   /\ AfterItem(c, l)
         \/ /\ media' = media
            /\ LET l == SkipUnparsable(
                          Tally([loc[c] EXCEPT !.moveWarnings =
                                   Append(@, <<"Media row update failed", row.id>>)],
                                row.media_type),
                          loc[c].idx + 1)
               IN  /\ loc' = [loc EXCEPT ![c] = l]
                   /\ AfterItem(c, l)

(***************************************************************************)
(* Timeline events after the migration, session update, audit log          *)
(***************************************************************************)
CfTlContact(c) ==
  TimelineStep(c, "cf_tl_contact", Event(c, "Linked to contact"), "cf_tl_media")

CfTlMedia(c) ==
  TimelineStep(c, "cf_tl_media", Event(c, "Media attached"),
               IF Len(loc[c].moveWarnings) > 0 THEN "cf_tl_warning" ELSE "cf_session_update")

CfTlWarning(c) ==
  TimelineStep(c, "cf_tl_warning", Event(c, "Media move warning"), "cf_session_update")

\* update intake_sessions set status = confirmed, ... where id = session_id
CfSessionUpdate(c) ==
  /\ pc[c] = "cf_session_update"
  /\ UNCHANGED <<limiter, records, contacts, codeSeq, media, timeline, audit, req>>
  /\ LET sid == req[c].session_id
     IN  \/ /\ sessions' = [sessions EXCEPT ![sid] =
                              [@ EXCEPT !.status = "confirmed",
                                        !.type_confirmed = req[c].type,
                                        !.final_record_type = tableByType(req[c].type),
                                        !.final_record_id = loc[c].recordId,
                                        !.ai_meta = loc[c].intake.ai_meta
                                           \cup {"missing_critical_fields", "final_row_status"}]]
            /\ loc' = [loc EXCEPT ![c] = Wrote(@, "intake_sessions")]
            /\ Goto(c, "cf_audit")
         \/ /\ sessions' = sessions
            /\ loc' = [loc EXCEPT ![c].err = "session update failed"]
            /\ Throw(c, "session update failed")

\* writeAuditLog in the route, then the 200 response
CfAudit(c) ==
  /\ pc[c] = "cf_audit"
  /\ UNCHANGED <<limiter, sessions, records, contacts, codeSeq, media, timeline, req>>
  /\ \/ /\ audit' = audit (+) SetToBag({
                      [action |-> IF req[c].mode = "create_new"
                                  THEN "confirm_create" ELSE "confirm_merge",
                       record_type |-> tableByType(req[c].type),
                       record_id |-> loc[c].recordId]})
        /\ loc' = [loc EXCEPT ![c] = Wrote(@, "audit_logs")]
        /\ Respond(c, 200)
     \/ /\ audit' = audit
        /\ loc' = [loc EXCEPT ![c].err = "audit insert failed"]
        /\ Throw(c, "audit insert failed")

(***************************************************************************)
(* POST /api/ai/process-intake (with and without splitting) and the        *)
(* forced-type extraction route                                            *)
(***************************************************************************)
IntakeTypes == ReviewTypes \cup {"other"}

DetectOps == {"detect_split", "detect_plain", "detect_forced"}

DetectPayloads ==
  [op : {"detect_split", "detect_plain"}, session_id : {1}, forced_type : {""}]
  \cup [op : {"detect_forced"}, session_id : {1}, forced_type : {"sale"}]

\* checkRateLimit, then the payload checks
StartDetect(c, payloads) ==
  /\ pc[c] = "idle"
  /\ UNCHANGED <<limiter, store, loc>>
  /\ \E payload \in payloads :
       /\ req' = [req EXCEPT ![c] = payload]
       /\ \/ Respond(c, 429)
          \/ IF payload.session_id = Null THEN Respond(c, 400) ELSE Goto(c, "dt_fetch")

\* select id, raw_text, parent_session_id, ai_meta from intake_sessions where id = ...
DtFetch(c) ==
  /\ pc[c] = "dt_fetch"
  /\ UNCHANGED <<limiter, store, req>>
  /\ IF req[c].session_id \notin DOMAIN sessions THEN
       /\ loc' = [loc EXCEPT ![c].err = "Intake session not found"]
       /\ Respond(c, 404)
     ELSE
       /\ loc' = [loc EXCEPT ![c].session =
                    [parent_session_id |-> sessions[req[c].session_id].parent_session_id,
                     ai_meta |-> sessions[req[c].session_id].ai_meta]]
       /\ Goto(c, "dt_detect")

\* detectTypeAndLanguage: the model answers with a type, or its output stays malformed
DtDetect(c, types) ==
  /\ pc[c] = "dt_detect"
  /\ UNCHANGED <<limiter, store, req>>
  /\ \/ \E t \in types :
          /\ loc' = [loc EXCEPT ![c].detected = t]
          /\ Goto(c, IF req[c].op = "detect_split" THEN "dt_multi" ELSE "dt_extract")
     \/ /\ loc' = [loc EXCEPT ![c].err = "JSON parse failed after one repair attempt"]
        /\ Respond(c, 500)

\* .slice(0, 10)
SegmentCap == 10

\* the length of list.slice(0, k) for a list of n elements
SliceLen(n, k) == IF n < k THEN n ELSE k

\* what the heuristic reads off a text: the numbered and the blank-line separated
\* candidates longer than 20 characters, and whether the prices, separators, lines
\* and areas of the text support each reading
SplitTexts(max) ==
  [numbered : 0..max, numberedEvidence : BOOLEAN, blocks : 0..max, blockEvidence : BOOLEAN]

\* the model's answer after multiListingSchema.parse, empty segments filtered out
MultiAnswers(max) == [multi_listing : BOOLEAN, segments : 0..max]

heuristicSplitListings(rawText) ==
  IF rawText.numbered >= 2 /\ rawText.numberedEvidence
  THEN [multi_listing |-> TRUE, segments |-> SliceLen(rawText.numbered, SegmentCap)]
  ELSE IF rawText.blockEvidence /\ rawText.blocks >= 2
  THEN [multi_listing |-> TRUE, segments |-> SliceLen(rawText.blocks, SegmentCap)]
  ELSE [multi_listing |-> FALSE, segments |-> 0]

detectMultipleListings(rawText, parsed) ==
  LET heuristic == heuristicSplitListings(rawText)
  IN  IF heuristic.multi_listing THEN heuristic
      ELSE [multi_listing |-> parsed.multi_listing /\ parsed.segments > 1,
            segments |-> parsed.segments]

\* the verdicts of the segmenter over every rawText and model answer, by segment count
MultiVerdicts(max) ==
  {detectMultipleListings(rawText, parsed) : rawText \in SplitTexts(max), parsed \in MultiAnswers(max)}

\* a mutant: sessions with a parent are split as well
MaySplit_anySession(session, multi) == multi.multi_listing

\* if (!session.parent_session_id && multi.multi_listing)
MaySplit(session, multi) == session.parent_session_id = Null /\ multi.multi_listing

\* detectMultipleListings, which throws when the model's answer stays malformed
DtMultiOf(c, max) ==
  /\ pc[c] = "dt_multi"
  /\ UNCHANGED <<limiter, store, req>>
  /\ \/ \E multi \in MultiVerdicts(max) :
          /\ loc' = [loc EXCEPT ![c].segments =
                                  IF multi.multi_listing THEN multi.segments ELSE 0]
          /\ Goto(c, IF MaySplit(loc[c].session, multi) THEN "dt_children" ELSE "dt_extract")
     \/ /\ loc' = [loc EXCEPT ![c].err = "JSON parse failed after one repair attempt"]
        /\ Respond(c, 500)

DtMulti(c) == DtMultiOf(c, MaxSegments)

ChildrenOf(sid) == {id \in DOMAIN sessions : sessions[id].parent_session_id = sid}

\* if (childIds.length === 0) { insert the child rows }
NoChildrenYet(childIds) == Cardinality(childIds) = 0

\* select id from intake_sessions where parent_session_id = ... limit 50;
\* childIds = (existingChildren.data || []): a store error reads as no children
DtChildren(c) ==
  /\ pc[c] = "dt_children"
  /\ UNCHANGED <<limiter, store, req>>
  /\ \E childIds \in {ChildrenOf(req[c].session_id), {}} :
       /\ loc' = [loc EXCEPT ![c].childIds = childIds]
       /\ Goto(c, IF NoChildrenYet(childIds) THEN "dt_insert" ELSE "dt_parent_update")

ChildRow(sid, index, total) ==
  [status |-> "draft", parent_session_id |-> sid, type_detected |-> "", type_confirmed |-> "",
   final_record_type |-> "", final_record_id |-> Null, ai_json |-> "{}",
   ai_meta |-> {"split_from_parent", "split_index", "split_total"}]

\* insert(childRows).select("id")
DtInsert(c) ==
  /\ pc[c] = "dt_insert"
  /\ UNCHANGED <<limiter, records, contacts, codeSeq, media, timeline, audit, req>>
  /\ LET sid == req[c].session_id
         base == Cardinality(DOMAIN sessions)
         ids == (base + 1)..(base + loc[c].segments)
     IN  \/ /\ sessions' = [k \in DOMAIN sessions \cup ids |->
                              IF k \in ids THEN ChildRow(sid, k - base, loc[c].segments)
                              ELSE sessions[k]]
            /\ loc' = [loc EXCEPT ![c] = Wrote([@ EXCEPT !.childIds = @ \cup ids], "intake_sessions")]
            /\ Goto(c, "dt_parent_update")
         \/ /\ sessions' = sessions
            /\ loc' = [loc EXCEPT ![c].err = "child insert failed"]
            /\ Respond(c, 500)

\* update intake_sessions set type_detected, ai_meta = mergedMeta, status = needs_review
DtParentUpdate(c) ==
  /\ pc[c] = "dt_parent_update"
  /\ UNCHANGED <<limiter, records, contacts, codeSeq, media, timeline, audit, req>>
  /\ LET sid == req[c].session_id
     IN  \/ /\ sessions' = [sessions EXCEPT ![sid] =
                              [@ EXCEPT !.type_detected = loc[c].detected,
                                        !.status = "needs_review",
                                        !.ai_meta = loc[c].session.ai_meta
                                           \cup {"detect_confidence", "language", "normalized_text",
                                                 "signals", "multi_listing", "child_count",
                                                 "child_ids"}]]
            /\ loc' = [loc EXCEPT ![c] = Wrote(@, "intake_sessions")]
            /\ Goto(c, "dt_timeline")
         \/ /\ sessions' = sessions
            /\ loc' = [loc EXCEPT ![c].err = "parent update failed"]
            /\ Respond(c, 500)

\* timeline insert whose result is not inspected, then the 200 response
DtTimeline(c) ==
  /\ pc[c] = "dt_timeline"
  /\ UNCHANGED <<limiter, sessions, records, contacts, codeSeq, media, audit, req>>
  /\ \/ /\ timeline' = timeline (+) SetToBag({[record_type |-> "intake_sessions",
                                             record_id |-> req[c].session_id,
                                             action |-> "Split into listings"]})
        /\ loc' = [loc EXCEPT ![c] = Wrote(@, "timeline")]
     \/ /\ timeline' = timeline
        /\ loc' = loc
  /\ Respond(c, 200)

ExtractType(c) == IF req[c].op = "detect_forced" THEN req[c].forced_type ELSE loc[c].detected

\* extractByType: {} for other; else fields (critical ones present or not), or a throw
DtExtract(c) ==
  /\ pc[c] = "dt_extract"
  /\ UNCHANGED <<limiter, store, req, resp>>
  /\ IF ExtractType(c) = "other" THEN
       /\ loc' = [loc EXCEPT ![c].missing = FALSE]
       /\ pc' = [pc EXCEPT ![c] = "dt_update"]
     ELSE
       \/ \E missing \in BOOLEAN :
            /\ loc' = [loc EXCEPT ![c].missing = missing]
            /\ pc' = [pc EXCEPT ![c] = "dt_update"]
       \/ \E status \in {422, 500} :
            /\ loc' = [loc EXCEPT ![c].failStatus = status,
                                  ![c].err = IF status = 422
                                             THEN "JSON parse failed after one repair attempt"
                                             ELSE "extraction failed"]
            /\ pc' = [pc EXCEPT ![c] = "dt_fail_update"]

\* a mutant: the failure reason is not kept in the metadata
failureMeta_noReason(forced) ==
  {"language", "detect_confidence", "normalized_text"}
    \cup (IF forced THEN {"forced_type"} ELSE {})

\* ai_meta: { language, detect_confidence, extraction_error: reason, normalized_text }
failureMeta(forced) ==
  {"language", "detect_confidence", "extraction_error", "normalized_text"}
    \cup (IF forced THEN {"forced_type"} ELSE {})

\* the catch block: update status = needs_review with a fresh ai_meta; result not inspected
DtFailUpdate(c) ==
  /\ pc[c] = "dt_fail_update"
  /\ UNCHANGED <<limiter, records, contacts, codeSeq, media, timeline, audit, req>>
  /\ LET sid == req[c].session_id
         forced == req[c].op = "detect_forced"
     IN  \/ /\ sessions' = [sessions EXCEPT ![sid] =
                              [@ EXCEPT !.type_detected = IF forced THEN @ ELSE loc[c].detected,
                                        !.status = "needs_review",
                                        !.ai_meta = failureMeta(forced)]]
            /\ loc' = [loc EXCEPT ![c] = Wrote(@, "intake_sessions")]
         \/ /\ sessions' = sessions
            /\ loc' = loc
  /\ Respond(c, loc[c].failStatus)

\* a mutant: a run that extracted something always leaves the session in draft
nextStatusOf_draft(missing) == "draft"

\* validated.missing_fields.length > 0 ? "needs_review" : "draft"
nextStatusOf(missing) == IF missing THEN "needs_review" ELSE "draft"

\* validateAndNormalize, then update type_detected, ai_json, ai_meta, status
DtUpdate(c) ==
  /\ pc[c] = "dt_update"
  /\ UNCHANGED <<limiter, records, contacts, codeSeq, media, timeline, audit, req>>
  /\ LET sid == req[c].session_id
         nextStatus == nextStatusOf(loc[c].missing)
     IN  \/ /\ sessions' = [sessions EXCEPT ![sid] =
                              [@ EXCEPT !.type_detected = ExtractType(c),
                                        !.ai_json = "normalized",
                                        !.status = nextStatus,
                                        !.ai_meta = {"language", "confidence_map", "missing_fields",
                                                     "detect_confidence", "normalized_text",
                                                     "extracted_json", "signals"}
                                           \cup (CASE req[c].op = "detect_split" -> {"multi_listing"}
                                                   [] req[c].op = "detect_forced" -> {"forced_type"}
                                                   [] OTHER -> {})]]
            /\ loc' = [loc EXCEPT ![c] = Wrote(@, "intake_sessions")]
            /\ Respond(c, 200)
         \/ /\ sessions' = sessions
            /\ loc' = [loc EXCEPT ![c].err = "session update failed"]
            /\ Respond(c, 500)

DetectStep(c, types) ==
  \/ DtFetch(c) \/ DtDetect(c, types) \/ DtMulti(c) \/ DtChildren(c) \/ DtInsert(c)
  \/ DtParentUpdate(c) \/ DtTimeline(c) \/ DtExtract(c) \/ DtFailUpdate(c) \/ DtUpdate(c)

(***************************************************************************)
(* POST /api/contacts and PATCH record drawer (action create_contact)      *)
(***************************************************************************)
ContactPayloads ==
  [op : {"contact_create", "contact_link"}, name : {<<"N">>}, phone : {<<"7">>},
   type : {"sale"}, id : {1}]

ContactPayloadsOne ==
  [op : {"contact_create", "contact_link"}, name : {<<>>, <<"N">>},
   phone : {<<>>, <<"7">>, <<"+", "7">>}, type : {"sale"}, id : {1, MissingId}]

StartContact(c, payloads) ==
  /\ pc[c] = "idle"
  /\ UNCHANGED <<limiter, store>>
  /\ \E payload \in payloads :
       LET name == text(payload.name)
           phone == normalizeContactPhone(payload.phone)
       IN  /\ req' = [req EXCEPT ![c] = payload]
           /\ loc' = [loc EXCEPT ![c].contactName = name, ![c].contactPhone = phone]
           /\ IF ~Truthy(name) /\ ~Truthy(phone) THEN Respond(c, 400)
              ELSE IF Truthy(phone) THEN Goto(c, "ct_lookup")
              ELSE Goto(c, "ct_insert")

\* select ... eq("phone", phone).maybeSingle(): null unless exactly one row matches
CtLookup(c) ==
  /\ pc[c] = "ct_lookup"
  /\ UNCHANGED <<limiter, store, req>>
  /\ LET found == FoundContacts(loc[c].contactPhone)
     IN  \/ IF Cardinality(found) = 1 THEN
              /\ loc' = [loc EXCEPT ![c].contactId = MinOf(found)]
              /\ IF req[c].op = "contact_create" THEN Respond(c, 200) ELSE Goto(c, "ct_link")
            ELSE
              /\ loc' = loc
              /\ Goto(c, "ct_insert")
         \* const { data: existing } = ...: a store error leaves existing null
         \/ /\ loc' = loc
            /\ Goto(c, "ct_insert")

\* insert({ name: name || "Unknown", phone: phone || null })
CtInsert(c) ==
  /\ pc[c] = "ct_insert"
  /\ UNCHANGED <<limiter, sessions, records, codeSeq, media, timeline, audit, req>>
  /\ \/ LET id == NewId(contacts)
            row == [name |-> IF Truthy(loc[c].contactName) THEN loc[c].contactName ELSE W_Unknown,
                    phone |-> loc[c].contactPhone]
        IN  /\ contacts' = Extend(contacts, id, row)
            /\ loc' = [loc EXCEPT ![c] = Wrote([@ EXCEPT !.contactId = id], "contacts")]
            /\ IF req[c].op = "contact_create" THEN Respond(c, 200) ELSE Goto(c, "ct_link")
     \/ /\ contacts' = contacts
        /\ loc' = [loc EXCEPT ![c].err = "Failed to create contact"]
        /\ Respond(c, 500)

\* update <table> set contact_id where id = body.id
CtLink(c) ==
  /\ pc[c] = "ct_link"
  /\ UNCHANGED <<limiter, sessions, contacts, codeSeq, media, timeline, audit, req>>
  /\ LET table == tableByType(req[c].type)
         id == req[c].id
         hit == id \in DOMAIN records /\ records[id].record_type = table
     IN  \/ /\ records' = IF hit THEN [records EXCEPT ![id].contact_id = loc[c].contactId]
                          ELSE records
            /\ loc' = [loc EXCEPT ![c] = IF hit THEN Wrote([@ EXCEPT !.recordId = id], table)
                                         ELSE [@ EXCEPT !.recordId = id]]
            /\ Goto(c, "ct_timeline")
         \/ /\ records' = records
            /\ loc' = [loc EXCEPT ![c].err = "link failed"]
            /\ Respond(c, 500)

\* createTimelineEvent(..., "Linked to contact", ...), then the 200 response
CtTimeline(c) ==
  /\ pc[c] = "ct_timeline"
  /\ UNCHANGED <<limiter, sessions, records, contacts, codeSeq, media, audit, req>>
  /\ \/ /\ timeline' = timeline (+) SetToBag({Event(c, "Linked to contact")})
        /\ loc' = [loc EXCEPT ![c] = Wrote(@, "timeline")]
        /\ Respond(c, 200)
     \/ /\ timeline' = timeline
        /\ loc' = [loc EXCEPT ![c].err = "timeline insert failed"]
        /\ Respond(c, 500)

ContactStep(c) == CtLookup(c) \/ CtInsert(c) \/ CtLink(c) \/ CtTimeline(c)

ConfirmStep(c) ==
  \/ CfRead(c) \/ RcLookup(c) \/ RcInsert(c)
  \/ NcRead(c) \/ NcUpsert(c) \/ CfInsert(c) \/ CfTlCreated(c)
  \/ CfLoad(c) \/ CfUpdate(c) \/ CfTlUpdated(c)
  \/ MmSelect(c) \/ MmMove(c) \/ MmCopy(c) \/ MmUpdate(c)
  \/ CfTlContact(c) \/ CfTlMedia(c) \/ CfTlWarning(c)
  \/ CfSessionUpdate(c) \/ CfAudit(c)

Next ==
  \E c \in Calls :
    \/ StartConfirm(c, ConfirmPayloads) \/ ConfirmStep(c)
    \/ StartDetect(c, DetectPayloads) \/ DetectStep(c, {"sale", "other"})
    \/ StartContact(c, ContactPayloads) \/ ContactStep(c)

Spec == Init /\ [][Next]_vars

DetectPayloadsOne ==
  [op : {"detect_split", "detect_plain"}, session_id : {Null, 1, MissingId}, forced_type : {""}]
  \cup [op : {"detect_forced"}, session_id : {Null, 1, MissingId}, forced_type : ReviewTypes]

NextOne ==
  \/ StartConfirm("c1", ConfirmPayloadsOne) \/ ConfirmStep("c1")
  \/ StartDetect("c1", DetectPayloadsOne) \/ DetectStep("c1", IntakeTypes)
  \/ StartContact("c1", ContactPayloadsOne) \/ ContactStep("c1")

\* one request alone, every kind of payload, MaxMedia media rows
SpecOne == InitOne /\ [][NextOne]_vars

(***************************************************************************)
(* update_existing alone: every existing row, incoming row and decision    *)
(***************************************************************************)
\* the rows an earlier confirm may have left: price, area and notes given or not
SeedRows ==
  {[SeedSaleRow EXCEPT !["price"] = p, !["area"] = a, !["notes"] = n] :
     p \in {Null, 9}, a \in {<<>>, <<"A">>}, n \in {<<>>, <<"o">>}}

\* the reviewed fields of the request: price, area, notes and the owner's phone given or not
MergeData ==
  {[EmptyData EXCEPT !["price"] = p, !["area"] = a, !["notes"] = n, !["contact_phone"] = f] :
     p \in {<<>>, <<"1", "5">>}, a \in {<<>>, <<"B">>}, n \in {<<>>, <<"n">>},
     f \in {<<>>, <<"+", "7">>}}

\* merge_decisions: any decision, or none, for price and for notes
MergeDecisions ==
  UNION {[keys -> MergeModes] : keys \in SUBSET {"price", "notes"}}

MergePayloads ==
  [op : {"confirm"}, session_id : {1}, type : {"sale"},
   mode : {"update_existing"}, target_record_id : {1},
   extracted_data : MergeData, merge_decisions : MergeDecisions]
  \cup
  [op : {"confirm"}, session_id : {1}, type : {"sale"},
   mode : {"create_new"}, target_record_id : {Null},
   extracted_data : MergeData, merge_decisions : {NoRow}]

InitMerge == InitRows({1}, {{}, {1}}, SeedRows)

NextMerge == StartConfirm("c1", MergePayloads) \/ ConfirmStep("c1")

SpecMerge == InitMerge /\ [][NextMerge]_vars

\* requests served one after another: a request starts only when no other is in flight
NoneInFlight == \A c \in Calls : pc[c] \in {"idle", "done"}

NextSeq ==
  \E c \in Calls :
    \/ NoneInFlight /\ StartConfirm(c, ConfirmPayloads)
    \/ NoneInFlight /\ StartDetect(c, DetectPayloads)
    \/ NoneInFlight /\ StartContact(c, ContactPayloads)
    \/ ConfirmStep(c) \/ DetectStep(c, {"sale", "other"}) \/ ContactStep(c)

SpecSeq == Init /\ [][NextSeq]_vars

\* detect runs on the seeded session and on the first session a split creates
SplitPayloads ==
  [op : {"detect_split", "detect_plain"}, session_id : {1, 2}, forced_type : {""}]
  \cup [op : {"detect_forced"}, session_id : {1, 2}, forced_type : {"sale"}]

NextSplit ==
  \E c \in Calls :
    \/ StartDetect(c, SplitPayloads)
    \/ DtFetch(c) \/ DtDetect(c, {"sale", "other"}) \/ DtMultiOf(c, MaxCandidates)
    \/ DtChildren(c) \/ DtInsert(c) \/ DtParentUpdate(c) \/ DtTimeline(c)
    \/ DtExtract(c) \/ DtFailUpdate(c) \/ DtUpdate(c)

\* detect runs only, two requests in flight, texts of up to MaxCandidates listings
SpecSplit == Init /\ [][NextSplit]_vars

(***************************************************************************)
(* POST /api/media: upload files to an intake session or to a record       *)
(***************************************************************************)
\* the files a form may carry: name, size and MIME type
Files ==
  {[name |-> "a.png", size |-> 1, mime |-> "image/png"],
   [name |-> "a.png", size |-> 2, mime |-> "image/png"],
   [name |-> "b.mp4", size |-> 1, mime |-> "video/mp4"]}

RECURSIVE FileLists(_)
FileLists(n) ==
  IF n = 0 THEN {<<>>}
  ELSE LET shorter == FileLists(n - 1)
       IN  shorter \cup {Append(fs, f) : fs \in shorter, f \in Files}

\* intake_session_id alone, record_type + record_id alone, both, or neither
UploadPayloads ==
  [op : {"upload"}, intake_session_id : {Null, 1}, record_type : {"properties_sale"},
   record_id : {1}, files : FileLists(MaxFiles)]
  \cup
  [op : {"upload"}, intake_session_id : {Null, 1}, record_type : {""},
   record_id : {Null}, files : FileLists(MaxFiles)]

detectMediaType(mime) ==
  CASE mime = "image/png" -> "image"
    [] mime = "video/mp4" -> "video"
    [] mime = "application/pdf" -> "document"
    [] OTHER -> "other"

\* `${name}|${size ?? 0}`
Sig(name, size) == <<name, IF size = Null THEN 0 ELSE size>>

StartUpload(c, payloads) ==
  /\ pc[c] = "idle"
  /\ UNCHANGED <<limiter, store, loc>>
  /\ \E payload \in payloads :
       /\ req' = [req EXCEPT ![c] = payload]
       /\ IF Len(payload.files) = 0 THEN Respond(c, 400)
          ELSE IF payload.intake_session_id = Null
                  /\ ~(payload.record_type # "" /\ payload.record_id # Null)
          THEN Respond(c, 400)
          ELSE Goto(c, IF payload.intake_session_id # Null THEN "up_lookup" ELSE "up_store")

\* toUpload = files.filter((f) => !duplicateSig.has(`${f.name}|${f.size}`))
NotDuplicate(existingSig, files) ==
  LET keep(f) == Sig(f.name, f.size) \notin existingSig
  IN  SelectSeq(files, keep)

\* select original_filename, file_size where intake_session_id = ...; only data is read
UpLookup(c) ==
  /\ pc[c] = "up_lookup"
  /\ UNCHANGED <<limiter, store, req, resp>>
  /\ \E answered \in BOOLEAN :
       LET existing == IF answered
                       THEN {id \in DOMAIN media :
                               media[id].intake_session_id = req[c].intake_session_id}
                       ELSE {}
           sig == {Sig(media[id].original_filename, media[id].file_size) : id \in existing}
           isDup(f) == Sig(f.name, f.size) \in sig
       IN  /\ loc' = [loc EXCEPT ![c].duplicates = SelectSeq(req[c].files, isDup),
                                 ![c].toUpload = NotDuplicate(sig, req[c].files)]
           /\ pc' = [pc EXCEPT ![c] = "up_store"]

\* the loop over toUpload: mediaStorageProvider.upload of every file, which may throw
UpStore(c) ==
  /\ pc[c] = "up_store"
  /\ UNCHANGED <<limiter, store, req>>
  /\ LET files == IF req[c].intake_session_id # Null THEN loc[c].toUpload ELSE req[c].files
     IN  \/ /\ loc' = [loc EXCEPT ![c].toUpload = files]
            /\ IF Len(files) > 0 THEN Goto(c, "up_insert") ELSE Respond(c, 200)
         \/ /\ Len(files) > 0
            /\ loc' = [loc EXCEPT ![c].err = "upload failed"]
            /\ Respond(c, 500)

\* the rows records.push builds
UploadRow(payload, file) ==
  [intake_session_id |-> payload.intake_session_id,
   record_type |-> payload.record_type, record_id |-> payload.record_id,
   linked_record_type |-> payload.record_type, linked_record_id |-> payload.record_id,
   media_type |-> detectMediaType(file.mime), url_ok |-> TRUE,
   original_filename |-> file.name, file_size |-> file.size]

\* a mutant: the table has no unique index
ViolatesDedupeIndex_never(table, rows) == FALSE

\* unique index idx_media_dedupe_intake on (intake_session_id, original_filename,
\* file_size) where intake_session_id is not null; a null file_size never collides
ViolatesDedupeIndex(table, rows) ==
  LET Key(r) == <<r.intake_session_id, r.original_filename, r.file_size>>
      Indexed(r) == r.intake_session_id # Null /\ r.file_size # Null
  IN  \/ \E i, j \in 1..Len(rows) :
           i # j /\ Indexed(rows[i]) /\ Key(rows[i]) = Key(rows[j])
      \/ \E i \in 1..Len(rows) : \E id \in DOMAIN table :
           Indexed(rows[i]) /\ Key(rows[i]) = Key(table[id])

\* insert(records): all rows or none
UpInsert(c) ==
  /\ pc[c] = "up_insert"
  /\ UNCHANGED <<limiter, sessions, records, contacts, codeSeq, timeline, audit, req>>
  /\ LET rows == [i \in 1..Len(loc[c].toUpload) |-> UploadRow(req[c], loc[c].toUpload[i])]
         base == Cardinality(DOMAIN media)
     IN  \/ /\ ~ViolatesDedupeIndex(media, rows)
            /\ media' = [k \in DOMAIN media \cup (base + 1)..(base + Len(rows)) |->
                           IF k > base THEN rows[k - base] ELSE media[k]]
            /\ loc' = [loc EXCEPT ![c] = Wrote(@, "media")]
            /\ Respond(c, 200)
         \/ /\ media' = media
            /\ loc' = [loc EXCEPT ![c].err = "insert failed"]
            /\ Respond(c, 500)

UploadStep(c) == UpLookup(c) \/ UpStore(c) \/ UpInsert(c)

\* confirms of the session, so that uploads meet the media migration
MigratingConfirms ==
  [op : {"confirm"}, session_id : {1}, type : {"sale"},
   mode : {"create_new", "update_existing"}, target_record_id : {1},
   extracted_data : {DataFull}, merge_decisions : {NoRow}]

NextMedia ==
  \E c \in Calls :
    \/ StartUpload(c, UploadPayloads) \/ UploadStep(c)
    \/ StartConfirm(c, MigratingConfirms) \/ ConfirmStep(c)

\* uploads and confirms, two requests in flight
SpecMedia == Init /\ [][NextMedia]_vars

(***************************************************************************)
(* checkRateLimit, as the model-invoking routes call it                    *)
(***************************************************************************)
\* the bucket map after the call and the verdict, for a call made at instant t
checkRateLimit(bk, key, limit, windowMs, t) ==
  IF key \notin DOMAIN bk \/ bk[key].resetAt <= t THEN
    [allowed |-> TRUE, buckets |-> Extend(bk, key, [count |-> 1, resetAt |-> t + windowMs])]
  ELSE IF bk[key].count >= limit THEN
    [allowed |-> FALSE, buckets |-> bk]
  ELSE
    [allowed |-> TRUE, buckets |-> [bk EXCEPT ![key].count = @ + 1]]

\* a route checks the limit for the caller's key: rl.allowed, or the 429 response
RateCheck(key) ==
  /\ LET rl == checkRateLimit(buckets, key, RateLimit, WindowMs, now)
     IN  /\ buckets' = rl.buckets
         /\ granted' = IF rl.allowed THEN [granted EXCEPT ![key] = Append(@, now)]
                        ELSE granted
  /\ UNCHANGED <<store, pc, req, loc, resp, now>>

\* the clock advances
Tick ==
  /\ now < MaxTime
  /\ now' = now + 1
  /\ UNCHANGED <<store, pc, req, loc, resp, buckets, granted>>

NextRate == Tick \/ \E key \in RateKeys : RateCheck(key)

SpecRate == Init /\ [][NextRate]_vars

(***************************************************************************)
(* create_new confirms of listings over every short free-text input        *)
(***************************************************************************)
RECURSIVE StringsUpTo(_, _)
StringsUpTo(alphabet, n) ==
  IF n = 0 THEN {<<>>}
  ELSE LET shorter == StringsUpTo(alphabet, n - 1)
       IN  shorter \cup {Append(w, ch) : w \in shorter, ch \in alphabet}

PriceInputs == StringsUpTo({"0", "5", "a", " "}, MaxLen)

PlaceInputs == StringsUpTo({"A", " "}, MaxLen)

SanitizePayloads ==
  {[op |-> "confirm", session_id |-> 1, type |-> t, mode |-> "create_new",
    target_record_id |-> Null,
    extracted_data |-> [EmptyData EXCEPT !["price"] = p, !["area"] = a, !["compound"] = k],
    merge_decisions |-> NoRow] :
     t \in {"sale", "rent"}, p \in PriceInputs, a \in PlaceInputs, k \in PlaceInputs}

NextSanitize ==
  \/ StartConfirm("c1", SanitizePayloads)
  \/ CfRead("c1") \/ NcRead("c1") \/ NcUpsert("c1") \/ CfInsert("c1")

SpecSanitize == Init /\ [][NextSanitize]_vars

(***************************************************************************)
(* Text normalizer and validator of the intake-processing service.         *)
(* A character is one element of a sequence; the Arabic letters, digits    *)
(* and punctuation marks are written by name.                              *)
(***************************************************************************)
ArabicStudio == <<"seen", "teh", "waw", "dal", "yeh", "waw">>

ArabicPound == <<"jeem", "noon", "yeh", "heh">>

ArabicLetters == {"jeem", "noon", "yeh", "heh", "seen", "teh", "waw", "dal"}

ArabicDigits == {"ar0", "ar1", "ar2", "ar3", "ar4", "ar5", "ar6", "ar7", "ar8", "ar9"}

LatinLetters == {"s", "t", "u", "d", "i", "o", "l", "e", "g", "p"}

\* the /i flag
LowerLatin(ch) ==
  CASE ch = "S" -> "s" [] ch = "T" -> "t" [] ch = "U" -> "u" [] ch = "D" -> "d"
    [] ch = "I" -> "i" [] ch = "O" -> "o" [] ch = "L" -> "l" [] ch = "E" -> "e"
    [] ch = "G" -> "g" [] ch = "P" -> "p" [] OTHER -> ch

\* \w
IsWordChar(ch) == LowerLatin(ch) \in LatinLetters \/ ch \in Digits \/ ch = "_"

\* \s
IsWhite(ch) == ch \in {" ", "\n"}

\* the character at a position, none outside the string
CharAt(s, i) == IF i \in 1..Len(s) THEN s[i] ELSE ""

\* \b in front of position i
WordBoundary(s, i) == IsWordChar(CharAt(s, i - 1)) # IsWordChar(CharAt(s, i))

\* the pattern, case-insensitively, at position i
MatchesAt(s, i, pat) ==
  /\ i + Len(pat) - 1 <= Len(s)
  /\ \A k \in 1..Len(pat) : LowerLatin(s[i + k - 1]) = pat[k]

\* text.replace(/[arabic digits]/g, (d) => map[d] ?? d)
arabicToEnglishDigits(s) ==
  [i \in 1..Len(s) |->
     CASE s[i] = "ar0" -> "0" [] s[i] = "ar1" -> "1" [] s[i] = "ar2" -> "2"
       [] s[i] = "ar3" -> "3" [] s[i] = "ar4" -> "4" [] s[i] = "ar5" -> "5"
       [] s[i] = "ar6" -> "6" [] s[i] = "ar7" -> "7" [] s[i] = "ar8" -> "8"
       [] s[i] = "ar9" -> "9" [] OTHER -> s[i]]

Egp == <<"e", "g", "p">>

\* egp|le|l\.e, in the order the alternation tries them
LatinTokens == <<Egp, <<"l", "e">>, <<"l", ".", "e">>>>

\* the alternatives of /\b(egp|le|l\.e)\b/gi that match at position i
LatinTokenAt(s, i) ==
  {k \in 1..Len(LatinTokens) :
     /\ MatchesAt(s, i, LatinTokens[k])
     /\ WordBoundary(s, i)
     /\ WordBoundary(s, i + Len(LatinTokens[k]))}

\* the pound spelled out, its abbreviation with the dot, the abbreviation alone
ArabicTokens == <<ArabicPound, <<"jeem", ".">>, <<"jeem">>>>

\* the alternatives of /(pound|abbreviation\.?)(?=\s|$)/gi that match at position i
ArabicTokenAt(s, i) ==
  {k \in 1..Len(ArabicTokens) :
     /\ MatchesAt(s, i, ArabicTokens[k])
     /\ LET after == i + Len(ArabicTokens[k])
        IN  after > Len(s) \/ IsWhite(s[after])}

Least(S) == CHOOSE k \in S : \A j \in S : k <= j

\* text.replace(/\b(egp|le|l\.e)\b/gi, "egp"): left to right, the first alternative
\* that matches
RECURSIVE ReplaceLatin(_, _)
ReplaceLatin(s, i) ==
  IF i > Len(s) THEN <<>>
  ELSE IF LatinTokenAt(s, i) # {}
  THEN Egp \o ReplaceLatin(s, i + Len(LatinTokens[Least(LatinTokenAt(s, i))]))
  ELSE <<s[i]>> \o ReplaceLatin(s, i + 1)

\* .replace(/(pound|abbreviation\.?)(?=\s|$)/gi, "egp")
RECURSIVE ReplaceArabic(_, _)
ReplaceArabic(s, i) ==
  IF i > Len(s) THEN <<>>
  ELSE IF ArabicTokenAt(s, i) # {}
  THEN Egp \o ReplaceArabic(s, i + Len(ArabicTokens[Least(ArabicTokenAt(s, i))]))
  ELSE <<s[i]>> \o ReplaceArabic(s, i + 1)

normalizeCurrencyTokens(s) == ReplaceArabic(ReplaceLatin(s, 1), 1)

\* [!?.,] and the Arabic comma and semicolon
PunctuationMarks == {"!", "?", ".", ",", "ar_comma", "ar_semicolon"}

\* the last position of the run of characters of a class that starts at i
RECURSIVE RunEnd(_, _, _)
RunEnd(s, i, class) ==
  IF i < Len(s) /\ s[i + 1] \in class THEN RunEnd(s, i + 1, class) ELSE i

\* text.replace(/[!?.,...]{2,}/g, (m) => m[0])
RECURSIVE PunctuationFrom(_, _)
PunctuationFrom(s, i) ==
  IF i > Len(s) THEN <<>>
  ELSE IF s[i] \in PunctuationMarks
  THEN <<s[i]>> \o PunctuationFrom(s, RunEnd(s, i, PunctuationMarks) + 1)
  ELSE <<s[i]>> \o PunctuationFrom(s, i + 1)

normalizePunctuation(s) == PunctuationFrom(s, 1)

\* .replace(/\s+/g, " ")
RECURSIVE CollapseFrom(_, _)
CollapseFrom(s, i) ==
  IF i > Len(s) THEN <<>>
  ELSE IF IsWhite(s[i])
  THEN <<" ">> \o CollapseFrom(s, RunEnd(s, i, {" ", "\n"}) + 1)
  ELSE <<s[i]>> \o CollapseFrom(s, i + 1)

normalizeDetectedText(s) ==
  trimEnd(trimStart(CollapseFrom(
    normalizePunctuation(normalizeCurrencyTokens(arabicToEnglishDigits(s))), 1)))

\* digitsOnly of the service: (arabicToEnglishDigits(value).match(/\d+/g) || []).join("")
digitsOnlyOfService(value) == SelectSeq(arabicToEnglishDigits(value), IsDigit)

Studio == <<"s", "t", "u", "d", "i", "o">>

\* a mutant: only the bedrooms field is tested
studioTest_fieldOnly(bedroomsRaw, normalizedTextSafe) ==
  \E i \in 1..Len(bedroomsRaw) :
    \/ /\ MatchesAt(bedroomsRaw, i, Studio)
       /\ WordBoundary(bedroomsRaw, i) /\ WordBoundary(bedroomsRaw, i + Len(Studio))
    \/ MatchesAt(bedroomsRaw, i, ArabicStudio)

\* /\bstudio\b|<arabic studio>/i.test(`${bedroomsRaw} ${normalizedTextSafe}`)
studioTest(bedroomsRaw, normalizedTextSafe) ==
  LET subject == bedroomsRaw \o <<" ">> \o normalizedTextSafe
  IN  \E i \in 1..Len(subject) :
        \/ /\ MatchesAt(subject, i, Studio)
           /\ WordBoundary(subject, i) /\ WordBoundary(subject, i + Len(Studio))
        \/ MatchesAt(subject, i, ArabicStudio)

\* validateAndNormalize, of its result the bedrooms field (absent for a buyer,
\* a client and other) and the text the notes are derived from
validateAndNormalize(type, extractedJson, normalizedText) ==
  LET normalizedTextSafe == normalizeDetectedText(normalizedText)
      bedroomsRaw == extractedJson.bedrooms
  IN  [normalizedTextSafe |-> normalizedTextSafe,
       bedrooms |-> IF type \in {"sale", "rent"}
                    THEN IF studioTest(bedroomsRaw, normalizedTextSafe) THEN <<"0">>
                         ELSE digitsOnlyOfService(bedroomsRaw)
                    ELSE <<>>]

\* what the texts of the model's answers are made of
TextPieces ==
  {Studio, <<"S", "t", "u", "d", "i", "o">>, ArabicStudio,
   <<"s">>, <<" ">>, <<".">>, <<"jeem">>, <<"l">>, <<"e">>, <<"ar3">>}

RECURSIVE TextsOf(_)
TextsOf(n) ==
  IF n = 0 THEN {<<>>}
  ELSE LET shorter == TextsOf(n - 1)
       IN  shorter \cup {w \o piece : w \in shorter, piece \in TextPieces}

BedroomInputs == {<<>>, <<"2">>, Studio, ArabicStudio}

\* the model's answers: detected type, normalized_text, extracted bedrooms
TextPayloads ==
  [op : {"text"}, type : {"sale", "rent", "buyer"},
   normalized_text : TextsOf(MaxPieces), bedrooms : BedroomInputs]

StartText(c, payloads) ==
  /\ pc[c] = "idle"
  /\ UNCHANGED <<limiter, store, loc, resp>>
  /\ \E payload \in payloads :
       /\ req' = [req EXCEPT ![c] = payload]
       /\ pc' = [pc EXCEPT ![c] = "tx_detect"]

\* parseDetectModelPayload: normalized_text: normalizeDetectedText(parsed.normalized_text)
TxDetect(c) ==
  /\ pc[c] = "tx_detect"
  /\ UNCHANGED <<limiter, store, req, resp>>
  /\ loc' = [loc EXCEPT ![c].normalizedText = normalizeDetectedText(req[c].normalized_text)]
  /\ pc' = [pc EXCEPT ![c] = "tx_validate"]

\* validateAndNormalize(detected.detected_type, extracted, detected.normalized_text)
TxValidate(c) ==
  /\ pc[c] = "tx_validate"
  /\ UNCHANGED <<limiter, store, req>>
  /\ loc' = [loc EXCEPT ![c].validated =
                validateAndNormalize(req[c].type, [bedrooms |-> req[c].bedrooms],
                                     loc[c].normalizedText)]
  /\ Respond(c, 200)

NextText == StartText("c1", TextPayloads) \/ TxDetect("c1") \/ TxValidate("c1")

\* the detected text normalized, then validated with the extracted fields
SpecText == Init /\ [][NextText]_vars

(***************************************************************************)
(* validateAndNormalize: the client branch and the missing critical fields *)
(***************************************************************************)
W_broker == <<"b", "r", "o", "k", "e", "r">>
W_other == <<"o", "t", "h", "e", "r">>

\* enumMaps.client_type
enumClientType == {<<>>, W_owner, W_seller, W_landlord, W_broker, W_other}

\* const raw = value.trim().toLowerCase(); options.includes(raw) ? raw : ""
normalizeEnum(value, options) ==
  LET raw == toLowerCase(text(value))
  IN  IF raw \in options THEN raw ELSE <<>>

criticalByType(type) ==
  CASE type \in {"sale", "rent"} -> <<"price", "location_area">>
    [] type = "buyer" -> <<"budget_max", "preferred_areas">>
    [] OTHER -> <<"name", "phone">>

\* the fields set("client_type" | "name" | "phone", ...) writes for a client
normalizedClient(extractedJson) ==
  [client_type |-> normalizeEnum(extractedJson.client_type, enumClientType),
   name |-> extractedJson.name,
   phone |-> digitsOnlyOfService(extractedJson.phone)]

\* criticalByType[type].filter((field) => !normalized[field])
missing_fields(type, normalized) ==
  LET critical == criticalByType(type)
      Blank(field) == ~Truthy(normalized[field])
  IN  SelectSeq(critical, Blank)

\* what the extraction may return for a client
ClientPayloads ==
  [op : {"validate"}, type : {"client"},
   client_type : {<<>>, W_owner, <<"O", "w", "n", "e", "r">>, W_broker, <<"x">>},
   name : {<<>>, <<"N">>, <<" ">>},
   phone : {<<>>, <<"7">>, <<"+", "7">>, <<"x">>}]

StartValidate(c, payloads) ==
  /\ pc[c] = "idle"
  /\ UNCHANGED <<limiter, store, loc, resp>>
  /\ \E payload \in payloads :
       /\ req' = [req EXCEPT ![c] = payload]
       /\ pc' = [pc EXCEPT ![c] = "vd_validate"]

\* validateAndNormalize("client", extracted, ...): normalized_json and missing_fields
VdValidate(c) ==
  /\ pc[c] = "vd_validate"
  /\ UNCHANGED <<limiter, store, req>>
  /\ LET normalized == normalizedClient(req[c])
     IN  loc' = [loc EXCEPT ![c].validated =
                   [normalized_json |-> normalized,
                    missing_fields |-> missing_fields(req[c].type, normalized)]]
  /\ Respond(c, 200)

NextValidate == StartValidate("c1", ClientPayloads) \/ VdValidate("c1")

\* the validator alone on the answers of a client extraction
SpecValidate == Init /\ [][NextValidate]_vars

(***************************************************************************)
(* completeJson and parseJsonWithRepair                                    *)
(***************************************************************************)
\* what the model may answer: empty, braces, brackets, a letter of prose
Completions == StringsUpTo({"{", "}", "[", "]", "x"}, MaxJson)

\* JSON.parse succeeds: an empty object, an empty array, or an array of one value
RECURSIVE JsonParses(_)
JsonParses(content) ==
  \/ content = <<"{", "}">>
  \/ content = <<"[", "]">>
  \/ /\ Len(content) > 2 /\ Head(content) = "[" /\ content[Len(content)] = "]"
     /\ JsonParses(SubSeq(content, 2, Len(content) - 1))

\* completion.choices[0]?.message?.content || "{}"
completeJson(content) == IF content = <<>> THEN <<"{", "}">> ELSE content

ParsePayloads == [op : {"parse"}, caller : {"detect", "multi", "extract"}]

StartParse(c, payloads) ==
  /\ pc[c] = "idle"
  /\ UNCHANGED <<limiter, store, loc, resp>>
  /\ \E payload \in payloads :
       /\ req' = [req EXCEPT ![c] = payload]
       /\ pc' = [pc EXCEPT ![c] = "pj_complete"]

\* the caller's completeJson: the model answers, or the request to it fails
PjComplete(c) ==
  /\ pc[c] = "pj_complete"
  /\ UNCHANGED <<limiter, store, req>>
  /\ \/ \E content \in Completions :
          /\ loc' = [loc EXCEPT ![c].raw = completeJson(content), ![c].modelCalls = @ + 1]
          /\ Goto(c, "pj_parse")
     \/ /\ loc' = [loc EXCEPT ![c].modelCalls = @ + 1, ![c].err = "model request failed"]
        /\ Respond(c, 500)

\* try { return JSON.parse(raw) } catch { ... }
PjParse(c) ==
  /\ pc[c] = "pj_parse"
  /\ UNCHANGED <<limiter, store, req, loc>>
  /\ IF JsonParses(loc[c].raw) THEN Respond(c, 200) ELSE Goto(c, "pj_repair")

\* const repaired = await completeJson([repair prompt, raw])
PjRepair(c) ==
  /\ pc[c] = "pj_repair"
  /\ UNCHANGED <<limiter, store, req>>
  /\ \/ \E content \in Completions :
          /\ loc' = [loc EXCEPT ![c].repaired = completeJson(content),
                                 ![c].modelCalls = @ + 1, ![c].repairCalls = @ + 1]
          /\ Goto(c, "pj_reparse")
     \/ /\ loc' = [loc EXCEPT ![c].modelCalls = @ + 1, ![c].repairCalls = @ + 1,
                               ![c].err = "model request failed"]
        /\ Respond(c, 500)

\* a mutant: a repaired output that does not parse is sent to the model again
AfterRepairFailed_again(c) ==
  /\ loc' = [loc EXCEPT ![c].raw = loc[c].repaired]
  /\ Goto(c, "pj_repair")

\* throw new ExtractionParseError("JSON parse failed after one repair attempt"),
\* which the routes answer with 422 around extractByType and with 500 elsewhere
AfterRepairFailed(c) ==
  /\ loc' = [loc EXCEPT ![c].err = "JSON parse failed after one repair attempt"]
  /\ Respond(c, IF req[c].caller = "extract" THEN 422 ELSE 500)

\* try { return JSON.parse(repaired) } catch { throw ... }
PjReparse(c) ==
  /\ pc[c] = "pj_reparse"
  /\ UNCHANGED <<limiter, store, req>>
  /\ IF JsonParses(loc[c].repaired)
     THEN loc' = loc /\ Respond(c, 200)
     ELSE AfterRepairFailed(c)

NextParse ==
  \/ StartParse("c1", ParsePayloads) \/ PjComplete("c1") \/ PjParse("c1")
  \/ PjRepair("c1") \/ PjReparse("c1")

\* one model response parsed with one repair attempt
SpecParse == Init /\ [][NextParse]_vars

(***************************************************************************)
(* Properties                                                              *)
(***************************************************************************)
IsConfirm(c) == pc[c] # "idle" /\ req[c].op = "confirm"

RecordTables == {tableByType(t) : t \in ReviewTypes}

\* C1: a confirm call that reads the session as already confirmed ends with the
\* "already confirmed" rejection (HTTP 409) and has written no row of any table.
C1_AlreadyConfirmedRejected ==
  \A c \in Calls :
    (IsConfirm(c) /\ loc[c].intake # NoRow /\ loc[c].intake.status = "confirmed")
      => (pc[c] = "done" /\ resp[c] = 409 /\ loc[c].wrote = {})

C1_Witness ==
  \E c \in Calls :
    /\ IsConfirm(c) /\ resp[c] = 409
    /\ sessions[req[c].session_id].status = "confirmed"

\* the call has marked its session confirmed
MarkedConfirmed(c) == IsConfirm(c) /\ "intake_sessions" \in loc[c].wrote

\* C2: of the confirm calls on one session, under any interleaving, at most one
\* marks the session confirmed and writes a canonical record for it.
C2_AtMostOneConfirmSucceeds ==
  \A c, d \in Calls :
    (MarkedConfirmed(c) /\ MarkedConfirmed(d) /\ req[c].session_id = req[d].session_id)
      => c = d

Allocated(prefix) ==
  {c \in Calls : IsConfirm(c) /\ loc[c].code # <<>> /\ loc[c].code[1] = prefix}

\* C3: the codes nextCode has returned for one (prefix, year) are pairwise distinct
\* and their numeric parts form a contiguous range.
C3_CodesDistinctContiguous ==
  \A prefix \in {codePrefixByType(t) : t \in ReviewTypes} :
    LET nums == {loc[c].next : c \in Allocated(prefix)}
    IN  /\ \A c, d \in Allocated(prefix) : loc[c].code = loc[d].code => c = d
        /\ \A n \in nums : \A m \in nums : \A k \in n..m : k \in nums

\* C4: no two contact rows share the same non-empty normalized phone.
C4_OneContactPerPhone ==
  \A a, b \in DOMAIN contacts :
    (Truthy(contacts[a].phone) /\ contacts[a].phone = contacts[b].phone) => a = b

\* C5: once a session's status is confirmed, no step of any operation changes it.
C5_ConfirmedIsTerminal ==
  [][\A sid \in DOMAIN sessions :
       sessions[sid].status = "confirmed" => sessions'[sid].status = "confirmed"]_vars

\* C6: with requests served one after another, a session that has children never
\* gets further ones: a later detect run leaves the set of its children as it was.
C6_NoFurtherChildren ==
  [][\A sid \in DOMAIN sessions :
       ChildrenOf(sid) # {} => ChildrenOf(sid)' = ChildrenOf(sid)]_vars

TargetRejections ==
  {"target_record_id is required for update_existing", "Target record not found"}

\* C7: an update_existing confirm rejected for a missing or unknown target has
\* written nothing: no contact, record, timeline or session row.
C7_RejectedTargetWritesNothing ==
  \A c \in Calls :
    (IsConfirm(c) /\ loc[c].err \in TargetRejections) => loc[c].wrote = {}

RecordWritten(c) == loc[c].wrote \cap RecordTables # {}

\* C8: a confirm call that has created or updated its canonical record answers
\* with success, whatever fails afterwards.
C8_LateFailureStillSucceeds ==
  \A c \in Calls :
    (IsConfirm(c) /\ pc[c] = "done" /\ RecordWritten(c)) => resp[c] = 200

HasWarning(c, kind) ==
  \E i \in 1..Len(loc[c].moveWarnings) : loc[c].moveWarnings[i][1] = kind

WarnedIds(c, kind) ==
  {loc[c].moveWarnings[i][2] :
     i \in {j \in 1..Len(loc[c].moveWarnings) : loc[c].moveWarnings[j][1] = kind}}

AfterMigration ==
  {"cf_tl_contact", "cf_tl_media", "cf_tl_warning", "cf_session_update", "cf_audit"}

\* failures of the store calls that follow the migration
LateStoreErrors == {"timeline insert failed", "session update failed", "audit insert failed"}

\* C9: the migration visits every media row of the session (each is tallied, or
\* skipped with a path warning); a move and copy that both fail leave a warning and
\* never end the call: it goes on to mark the session confirmed unless a store call fails.
C9_MediaFailuresDoNotAbort ==
  \A c \in Calls :
    IsConfirm(c) =>
      /\ (pc[c] \in AfterMigration \/ (pc[c] = "done" /\ resp[c] = 200)) =>
           /\ loc[c].idx = Len(loc[c].mediaRows) + 1
           /\ loc[c].images + loc[c].videos + loc[c].documents
                + Cardinality(WarnedIds(c, "Path parse failed")) = Len(loc[c].mediaRows)
      /\ (pc[c] = "done" /\ HasWarning(c, "Move/copy failed")) =>
           \/ loc[c].err \in LateStoreErrors
           \/ /\ resp[c] = 200
              /\ sessions[req[c].session_id].status = "confirmed"
              /\ sessions[req[c].session_id].final_record_id = loc[c].recordId

C9_Witness ==
  \E c \in Calls :
    /\ IsConfirm(c) /\ pc[c] = "done" /\ resp[c] = 200
    /\ Len(loc[c].mediaRows) >= 2
    /\ loc[c].mediaRows[1].id \in WarnedIds(c, "Move/copy failed")
    /\ loc[c].images + loc[c].videos + loc[c].documents = Len(loc[c].mediaRows)
    /\ sessions[req[c].session_id].status = "confirmed"

JustCreatedListing(c) ==
  /\ IsConfirm(c) /\ pc[c] = "cf_tl_created"
  /\ req[c].type \in {"sale", "rent"}

StoredRow(c) == records[loc[c].recordId].row

LacksLocation(row) == row["area"] = <<>> /\ row["compound"] = <<>>

\* C10 as stated: a created listing is needs_review exactly when its sanitized data
\* has no price (null) or no location (area and compound both blank).
C10_StatusIffLacksPriceOrLocation ==
  \A c \in Calls :
    JustCreatedListing(c) =>
      (records[loc[c].recordId].status = "needs_review"
         <=> (StoredRow(c)["price"] = Null \/ LacksLocation(StoredRow(c))))

\* C10 amended: a created listing is needs_review exactly when its sanitized price
\* is null or zero, or area and compound are both blank; it is active otherwise.
C10_StatusIffNoPositivePriceOrNoLocation ==
  \A c \in Calls :
    JustCreatedListing(c) =>
      /\ records[loc[c].recordId].status \in {"needs_review", "active"}
      /\ records[loc[c].recordId].status = "needs_review"
           <=> (StoredRow(c)["price"] \in {Null, 0} \/ LacksLocation(StoredRow(c)))

C10_Witness ==
  \E c \in Calls :
    /\ JustCreatedListing(c)
    /\ StoredRow(c)["price"] = 0
    /\ ~LacksLocation(StoredRow(c))
    /\ records[loc[c].recordId].status = "needs_review"

\* a detect call whose extraction output stayed malformed after the repair attempt
ExtractionParseFailed(c) ==
  /\ pc[c] = "done" /\ req[c].op \in DetectOps
  /\ loc[c].failStatus = 422

\* C11: a detect call whose extraction output is still malformed after the one repair
\* answers 422 and has touched no canonical record, contact or code counter; unless
\* the store refused its session update, the session is needs_review and its
\* metadata carries extraction_error.
C11_ParseFailureMarksNeedsReview ==
  ExtractionParseFailed("c1") =>
    /\ resp["c1"] = 422
    /\ loc["c1"].wrote \subseteq {"intake_sessions"}
    /\ records = (1 :> [record_type |-> "properties_sale", code |-> formatCode("SALE", 1),
                        status |-> "active", contact_id |-> Null, created_by |-> "u1",
                        intake_session_id |-> Null, row |-> SeedSaleRow])
    /\ contacts = NoRow
    /\ codeSeq = ("SALE" :> 1)
    /\ "intake_sessions" \in loc["c1"].wrote =>
         /\ sessions[req["c1"].session_id].status = "needs_review"
         /\ "extraction_error" \in sessions[req["c1"].session_id].ai_meta

C11_Witness ==
  /\ ExtractionParseFailed("c1") /\ resp["c1"] = 422
  /\ sessions[req["c1"].session_id].status = "needs_review"
  /\ "extraction_error" \in sessions[req["c1"].session_id].ai_meta

\* the calls of one key that were allowed in the interval [t, t + WindowMs)
GrantedIn(key, t) ==
  {i \in 1..Len(granted[key]) : t <= granted[key][i] /\ granted[key][i] < t + WindowMs}

\* C12: for every key and every interval of length WindowMs, the limiter has
\* allowed at most RateLimit calls with that key inside the interval.
C12_AtMostLimitPerSlidingWindow ==
  \A key \in RateKeys : \A t \in 0..MaxTime :
    Cardinality(GrantedIn(key, t)) <= RateLimit

\* C13: no two media rows of one intake session carry the same
\* (original filename, file size) pair.
C13_FilenameSizeUniquePerSession ==
  \A a, b \in DOMAIN media :
    (/\ media[a].intake_session_id # Null
     /\ media[a].intake_session_id = media[b].intake_session_id
     /\ media[a].original_filename = media[b].original_filename
     /\ media[a].file_size = media[b].file_size) => a = b

\* two requests have both uploaded to the session, one of them a file the other
\* also carried
C13_Witness ==
  /\ \A c \in Calls : pc[c] = "done" /\ req[c].op = "upload"
                         /\ req[c].intake_session_id = 1
  /\ resp["c1"] = 200 /\ "media" \in loc["c1"].wrote
  /\ resp["c2"] = 500 /\ loc["c2"].err = "insert failed"
  /\ \E i \in 1..Len(loc["c1"].toUpload) : \E j \in 1..Len(loc["c2"].toUpload) :
       loc["c1"].toUpload[i] = loc["c2"].toUpload[j]

\* C14: every media row is attached to an intake session or to a
\* (record type, record id) pair, never to both.
C14_SessionOrRecordNeverBoth ==
  \A id \in DOMAIN media :
    ~(/\ media[id].intake_session_id # Null
      /\ media[id].record_type # ""
      /\ media[id].record_id # Null)

\* C15: the segmenter never returns more than 10 segments, from the heuristic
\* or from the model, and a split never creates more than 10 child sessions.
C15_AtMostTenSegments ==
  \A c \in Calls :
    /\ loc[c].segments <= SegmentCap
    /\ (pc[c] # "idle" /\ req[c].op = "detect_split" /\ "intake_sessions" \in loc[c].wrote)
         => Cardinality(loc[c].childIds) <= SegmentCap

\* C20: a session that has a parent never has child sessions: the parent/child
\* relation has depth at most one.
C20_ChildrenAreNeverSplit ==
  \A id \in DOMAIN sessions :
    sessions[id].parent_session_id # Null => ChildrenOf(id) = {}

\* a detect run found several listings in the text of a child session and answered
C20_Witness ==
  \E c \in Calls :
    /\ pc[c] = "done" /\ resp[c] = 200
    /\ req[c].op = "detect_split"
    /\ req[c].session_id \in DOMAIN sessions
    /\ sessions[req[c].session_id].parent_session_id # Null
    /\ loc[c].segments > 1

TextDone(c) == pc[c] = "done" /\ req[c].op = "text"

\* C16: normalizeDetectedText is idempotent: normalizing a normalized text
\* leaves it as it is.
C16_NormalizeIdempotent ==
  \A c \in Calls :
    TextDone(c) => loc[c].validated.normalizedTextSafe = loc[c].normalizedText

IsLetterOrDigit(ch) == IsWordChar(ch) \/ ch \in ArabicLetters \/ ch \in ArabicDigits

\* the word studio, in any case, with no letter or digit next to it, or the
\* Arabic word anywhere
StudioOccurs(s) ==
  \E i \in 1..Len(s) :
    \/ /\ MatchesAt(s, i, Studio)
       /\ ~IsLetterOrDigit(CharAt(s, i - 1))
       /\ ~IsLetterOrDigit(CharAt(s, i + Len(Studio)))
    \/ MatchesAt(s, i, ArabicStudio)

\* C17: for type sale or rent, when the word studio (or its Arabic equivalent)
\* occurs in the extracted bedrooms field or in the normalized text,
\* validateAndNormalize outputs bedrooms "0" whatever bedrooms value was extracted.
C17_StudioForcesZeroBedrooms ==
  \A c \in Calls :
    (/\ TextDone(c) /\ req[c].type \in {"sale", "rent"}
     /\ StudioOccurs(req[c].bedrooms) \/ StudioOccurs(loc[c].normalizedText))
      => loc[c].validated.bedrooms = <<"0">>

\* two bedrooms were extracted from a text that mentions a Studio
C17_Witness ==
  /\ TextDone("c1") /\ req["c1"].type = "rent"
  /\ req["c1"].bedrooms = <<"2">>
  /\ ~StudioOccurs(req["c1"].bedrooms)
  /\ StudioOccurs(loc["c1"].normalizedText)
  /\ loc["c1"].validated.bedrooms = <<"0">>

\* the step is an upsert of the counter of the prefix by some nextCode call
UpsertsCounter(prefix) ==
  \E c \in Calls :
    /\ pc[c] = "nc_upsert" /\ pc'[c] = "cf_insert"
    /\ codePrefixByType(req[c].type) = prefix

\* C18: the counter of a (prefix, year) key never decreases: in every step of
\* every interleaving of nextCode calls the value written is greater than the
\* value it replaces.
C18_CounterOnlyGrows ==
  [][\A prefix \in DOMAIN codeSeq :
       /\ prefix \in DOMAIN codeSeq'
       /\ codeSeq'[prefix] >= codeSeq[prefix]
       /\ UpsertsCounter(prefix) => codeSeq'[prefix] > codeSeq[prefix]]_vars

\* the record the session names exists in the table it names
FinalRecordExists(sid) ==
  \E id \in DOMAIN records :
    /\ id = sessions[sid].final_record_id
    /\ records[id].record_type = sessions[sid].final_record_type

\* the call has written its record, gone through every media row it selected
\* and written the timeline events of its record
RecordMediaTimelineDone(c) ==
  /\ tableByType(req[c].type) \in loc[c].wrote
  /\ loc[c].recordId \in DOMAIN records
  /\ loc[c].idx > Len(loc[c].mediaRows)
  /\ BagIn(Event(c, IF req[c].mode = "create_new" THEN "Record created from intake"
                    ELSE "Record updated from intake"), timeline)
  /\ loc[c].contactId # Null => BagIn(Event(c, "Linked to contact"), timeline)
  /\ BagIn(Event(c, "Media attached"), timeline)
  /\ Len(loc[c].moveWarnings) > 0 => BagIn(Event(c, "Media move warning"), timeline)

\* C19: a session with status confirmed names, as final record type and id, a
\* canonical record that exists; a confirm call marks the session confirmed only
\* after its record write, its media migration and its timeline events.
C19_ConfirmedAfterRecordMediaTimeline ==
  /\ \A sid \in DOMAIN sessions :
       sessions[sid].status = "confirmed" => FinalRecordExists(sid)
  /\ \A c \in Calls : MarkedConfirmed(c) => RecordMediaTimelineDone(c)

\* both calls have marked the session, which names the record of one of them
C19_Witness ==
  /\ \A c \in Calls : MarkedConfirmed(c) /\ Len(loc[c].mediaRows) > 0
  /\ sessions[1].status = "confirmed"
  /\ \E c \in Calls : sessions[1].final_record_id = loc[c].recordId

\* C21: for a model response that does not parse, exactly one repair call is
\* issued; if the repaired output does not parse either, ExtractionParseError is
\* raised and no further model call is made for that response.
C21_ExactlyOneRepair ==
  \A c \in Calls :
    (pc[c] # "idle" /\ req[c].op = "parse") =>
      /\ loc[c].repairCalls <= 1
      /\ loc[c].modelCalls <= 2
      /\ (pc[c] \in {"pj_reparse", "done"} /\ loc[c].raw # <<>> /\ ~JsonParses(loc[c].raw))
           => loc[c].repairCalls = 1
      /\ (loc[c].raw # <<>> /\ JsonParses(loc[c].raw)) => loc[c].repairCalls = 0
      /\ (pc[c] = "done" /\ loc[c].repaired # <<>> /\ ~JsonParses(loc[c].repaired))
           => loc[c].err = "JSON parse failed after one repair attempt"

\* a response and its repaired version both failed to parse
C21_Witness ==
  \E c \in Calls :
    /\ pc[c] = "done" /\ req[c].op = "parse"
    /\ ~JsonParses(loc[c].raw) /\ loc[c].repaired # <<>> /\ ~JsonParses(loc[c].repaired)
    /\ loc[c].repairCalls = 1 /\ loc[c].modelCalls = 2

(***************************************************************************)
(* C22: in update_existing, for every sanitized field the merged value is  *)
(* the existing value under keep_existing, the incoming value under        *)
(* replace_with_new and, for notes under append, the existing and incoming *)
(* text joined by a newline or whichever side is non-empty; a field        *)
(* without a decision is appended when it is notes and replaced otherwise. *)
(***************************************************************************)
C22_Decision(c, key) ==
  IF key \in DOMAIN req[c].merge_decisions THEN req[c].merge_decisions[key]
  ELSE IF key = "notes" THEN "append" ELSE "replace_with_new"

C22_Appended(existing, incoming) ==
  IF text(existing) # <<>> /\ text(incoming) # <<>>
  THEN text(existing) \o <<"\n">> \o text(incoming)
  ELSE IF text(existing) # <<>> THEN text(existing) ELSE text(incoming)

C22_MergedValuePerDecision ==
  \A c \in Calls :
    pc[c] = "cf_update" =>
      \A key \in DOMAIN loc[c].sanitized :
        LET existing == records[req[c].target_record_id].row[key]
            incoming == loc[c].sanitized[key]
            decision == C22_Decision(c, key)
        IN  /\ decision = "keep_existing" => loc[c].merged[key] = existing
            /\ decision = "replace_with_new" => loc[c].merged[key] = incoming
            /\ (decision = "append" /\ key = "notes") =>
                 loc[c].merged[key] = C22_Appended(existing, incoming)

\* notes appended without a decision, both sides non-empty, next to a kept price
C22_Witness ==
  /\ pc["c1"] = "cf_update"
  /\ "notes" \notin DOMAIN req["c1"].merge_decisions
  /\ "price" \in DOMAIN req["c1"].merge_decisions
  /\ req["c1"].merge_decisions["price"] = "keep_existing"
  /\ records[1].row["price"] = 9
  /\ loc["c1"].sanitized["price"] = 15
  /\ loc["c1"].merged["price"] = 9
  /\ loc["c1"].merged["notes"] = <<"o", "\n", "n">>
  /\ loc["c1"].merged["area"] = <<"B">>
(***************************************************************************)
(* C23: contact resolution in confirm. With a non-empty phone the call     *)
(* links the existing contact having that normalized phone if one exists   *)
(* and creates one otherwise; with a name and no phone it always creates a *)
(* name-only contact; with neither it creates none and links none.         *)
(***************************************************************************)
C23_Links(c) ==
  LET phone == loc[c].contactPhone
      name == loc[c].contactName
      id == loc'[c].contactId
      found == FoundContacts(phone)
  IN  IF Truthy(phone) THEN
        IF found # {}
        THEN id = MinOf(found) /\ contacts' = contacts
        ELSE /\ id \notin DOMAIN contacts
             /\ id \in DOMAIN contacts'
             /\ contacts'[id].phone = phone
      ELSE /\ Truthy(name)
           /\ id \notin DOMAIN contacts
           /\ id \in DOMAIN contacts'
           /\ contacts'[id] = [name |-> name, phone |-> <<>>]

C23_NoneWithoutNameAndPhone(c) ==
  (/\ IsConfirm(c) /\ loc[c].sanitized # NoRow
   /\ ~Truthy(loc[c].contactPhone) /\ ~Truthy(loc[c].contactName))
    => (loc[c].contactId = Null /\ "contacts" \notin loc[c].wrote)

C23_ContactResolution ==
  /\ [](\A c \in Calls : C23_NoneWithoutNameAndPhone(c))
  /\ [][\A c \in Calls :
          (pc[c] \in {"rc_lookup", "rc_insert"} /\ loc'[c].contactId # Null)
            => C23_Links(c)]_vars
(***************************************************************************)
(* C24: after a detect-and-extract run that neither splits the session nor *)
(* fails extraction, the session's status is needs_review exactly when the *)
(* validator's list of missing critical fields is non-empty, and draft     *)
(* otherwise.                                                              *)
(***************************************************************************)
C24_Extracted(c) ==
  /\ pc[c] = "done" /\ req[c].op \in DetectOps /\ resp[c] = 200
  /\ "child_ids" \notin sessions[req[c].session_id].ai_meta

C24_NeedsReviewIffMissingCritical ==
  \A c \in Calls :
    C24_Extracted(c) =>
      /\ loc[c].missing => sessions[req[c].session_id].status = "needs_review"
      /\ ~loc[c].missing => sessions[req[c].session_id].status = "draft"

\* a run whose validator reported a missing critical field
C24_Witness ==
  /\ C24_Extracted("c1") /\ loc["c1"].missing /\ ExtractType("c1") = "client"
  /\ sessions[1].status = "needs_review"
(***************************************************************************)
(* C25: when the classifier's output is still malformed after the single   *)
(* repair attempt, the run leaves the session in needs_review with the     *)
(* failure recorded in its metadata, as for an extraction parse failure.   *)
(***************************************************************************)
C25_ClassifierFailed(c) ==
  /\ pc[c] = "done" /\ req[c].op \in {"detect_split", "detect_plain"}
  /\ req[c].session_id \in DOMAIN sessions
  /\ loc[c].session # NoRow
  /\ loc[c].detected = InitLoc.detected
  /\ loc[c].err = "JSON parse failed after one repair attempt"

C25_ClassifierFailureRecorded ==
  \A c \in Calls :
    C25_ClassifierFailed(c) =>
      /\ sessions[req[c].session_id].status = "needs_review"
      /\ "extraction_error" \in sessions[req[c].session_id].ai_meta
(***************************************************************************)
(* C26: for a client the validator reports a missing critical field        *)
(* exactly when name and phone are both empty or client_type is empty; a   *)
(* client with a name, no phone and a valid client_type has none.          *)
(***************************************************************************)
C26_Validated(c) == pc[c] = "done" /\ req[c].op = "validate" /\ req[c].type = "client"

C26_ClientNameOrPhoneAndType ==
  \A c \in Calls :
    C26_Validated(c) =>
      LET normalized == loc[c].validated.normalized_json
      IN  (loc[c].validated.missing_fields # <<>>)
            <=> \/ (~Truthy(normalized.name) /\ ~Truthy(normalized.phone))
                \/ ~Truthy(normalized.client_type)
(***************************************************************************)
(* C27: after a successful update_existing confirm the stored record has   *)
(* status needs_review exactly when the stored (merged) record lacks a     *)
(* critical field of its type, and active when all of them are present.    *)
(***************************************************************************)
C27_Updated(c) ==
  /\ IsConfirm(c) /\ req[c].mode = "update_existing"
  /\ tableByType(req[c].type) \in loc[c].wrote

C27_StatusFollowsStoredRecord ==
  \A c \in Calls :
    C27_Updated(c) =>
      LET stored == records[req[c].target_record_id]
      IN  (stored.status = "needs_review")
            <=> (computeMissingCritical(req[c].type, stored.row) # <<>>)
(***************************************************************************)
(* C28: for any interleaving of two concurrent detect runs on the same     *)
(* parentless, not yet split multi-listing session, children are inserted  *)
(* by at most one run: the parent has one child per segment of that run    *)
(* and no duplicates.                                                      *)
(***************************************************************************)
C28_SplitRun(c, sid) ==
  pc[c] # "idle" /\ req[c].op = "detect_split" /\ req[c].session_id = sid

C28_OneChildPerSegment ==
  \A sid \in DOMAIN sessions :
    ChildrenOf(sid) # {} =>
      \E c \in Calls :
        C28_SplitRun(c, sid) /\ Cardinality(ChildrenOf(sid)) = loc[c].segments
(***************************************************************************)
(* C29: a confirm in update_existing mode leaves unchanged every column of *)
(* the target record outside the type's allowed fields, except contact_id  *)
(* and status (its code, originating intake_session_id and created_by stay *)
(* as they were), and modifies no other record.                            *)
(***************************************************************************)
C29_OutsideAllowed(record) ==
  [record_type |-> record.record_type, code |-> record.code,
   intake_session_id |-> record.intake_session_id, created_by |-> record.created_by,
   row |-> [k \in DOMAIN record.row \ SeqToSet(allowedFieldsByType("sale")) |-> record.row[k]]]

C30_Bookkeeping ==
  {"integration_source", "split_from_parent", "split_index", "split_total", "child_ids"}

C30_MetadataKeysPreserved ==
  [][\A sid \in DOMAIN sessions :
       (sessions[sid].ai_meta \cap C30_Bookkeeping) \subseteq sessions'[sid].ai_meta]_vars
====
